---- MODULE Spec2Model ----
(***************************************************************************)
(* ScadaIFOX: the time-series analytics engine.                            *)
(*   - the edge-triggered operation detector (core/calculations.py),       *)
(*   - the dosagens ledger and the masseira_daily rollup with their        *)
(*     watermarks (core/sqlite_helper.py),                                 *)
(*   - the multi-period overview composer (core/calculations.py).          *)
(*                                                                         *)
(* Time.  A stored timestamp is the ISO text of a naive local clock        *)
(* reading.  Its whole seconds are an integer; a text that carries a       *)
(* fractional part (datetime.now().isoformat() with microsecond > 0) is    *)
(* the record [s |-> seconds, f |-> 1], one without it has f = 0.  Text    *)
(* comparison in SQL (BETWEEN) is the lexicographic order TsLE on these.   *)
(* readings.timestamp is written with microsecond = 0, so a reading's      *)
(* timestamp is kept as its integer seconds.                               *)
(* strftime('%s', text) reads the text as UTC, datetime.timestamp() and    *)
(* datetime.fromtimestamp() use the host's local zone: tz is the host's    *)
(* UTC offset in seconds.                                                  *)
(***************************************************************************)
EXTENDS Integers, Sequences, FiniteSets, TLC

VARIABLES
    \* ---- one run of the detector loop (calcula_operacoes_descarga_tanques)
    rows,             \* the fetched pivoted rows, ordered by (device, ts)
    i,                \* position of the next row of the for loop (1-based)
    last_op,          \* dict device -> last operation-in-progress value
    operacao_aberta,  \* dict device -> the open operation
    resultado,        \* dict device -> destino -> list of operations
    det_pc,           \* "scan" | "done" | "off"
    \* ---- the store (core/sqlite_helper.py)
    readings,         \* table readings, pivoted: one row per (device, timestamp)
    dosagens,         \* table dosagens: the list of its rows, in insertion order
    meta,             \* table meta: dict key -> timestamp text
    ops_log,          \* what the last update_dosagens_table run did
    late_write,       \* a reading was stored below the watermark of its batch
    masseira_daily,   \* table masseira_daily: dict <<date, device>> -> row
    energy_log,       \* per device, what the update_masseira_daily runs did
    integrated,       \* dict <<device, prev_ts, ts>> -> times the interval was summed
    overview,         \* dict periodos -> what calcular_overview_multi returned
    upserts,          \* the rows handed to _upsert_masseira_daily_row, in order
    bg,               \* background_updater: its position and what its attempts did
    conn,             \* GLOBAL_CONN and DB_LOCK: the lock, the open transaction, the threads
    poller,           \* poll_device of one device: its position in the loop, its data
    updater,          \* background_updater: its position in the loop, the jobs running
    \* ---- the host
    now,              \* the local clock, [s |-> seconds, f |-> 0 | 1]
    tz                \* UTC offset of the host's local zone, in seconds

detVars == <<rows, i, last_op, operacao_aberta, resultado, det_pc>>
ledgerVars == <<dosagens, ops_log, late_write>>
storeVars == <<readings, meta, now>>
energyVars == <<masseira_daily, energy_log, integrated>>
batchVars == <<dosagens, ops_log, late_write, masseira_daily, energy_log, integrated, meta>>
vars == <<rows, i, last_op, operacao_aberta, resultado, det_pc,
          readings, dosagens, meta, ops_log, late_write,
          masseira_daily, energy_log, integrated, overview, upserts, bg, conn,
          poller, updater, now, tz>>

(***************************************************************************)
(* Values and dictionaries                                                 *)
(***************************************************************************)
\* SQL NULL / Python None in a numeric column
Null == -1

\* a Python dict is a function whose domain is its key set
EmptyDict == <<>>
Get(f, k, default) == IF k \in DOMAIN f THEN f[k] ELSE default
Put(f, k, v) == [x \in (DOMAIN f) \cup {k} |-> IF x = k THEN v ELSE f[x]]
Pop(f, k) == [x \in (DOMAIN f) \ {k} |-> f[x]]

Min(S) == CHOOSE x \in S : \A y \in S : x <= y
Max(S) == CHOOSE x \in S : \A y \in S : x >= y

\* sum() of the values of a dict
RECURSIVE SomaFn(_)
SomaFn(f) ==
    IF DOMAIN f = {} THEN 0
    ELSE LET x == CHOOSE y \in DOMAIN f : TRUE
         IN f[x] + SomaFn([y \in (DOMAIN f) \ {x} |-> f[y]])

\* ISO text of a clock reading: [s, f], f = 1 when the text has a fraction
Iso(sec, frac) == [s |-> sec, f |-> frac]

\* start_ts = last_ts if last_ts else "1970-01-01T00:00:00"
Epoca0 == Iso(0, 0)

\* the record of an update_dosagens_table run, before any run
SemLog == [start_ts |-> Epoca0, end_ts |-> Epoca0, inserted |-> 0,
           skipped |-> 0, err |-> FALSE, seen |-> 0]

\* the record of the update_masseira_daily runs of a device, before any run
Masseiras == <<"Masseira_1", "Masseira_2">>
SemRuns == [last_end |-> Epoca0,
            dev |-> [d \in {Masseiras[1], Masseiras[2]} |->
                        [runs |-> 0, start_ts |-> Epoca0, seen |-> 0]]]

\* background_updater before its first cycle: pc is the job the loop runs
\* next, ultimo the clock reading of the last attempt, falhou the watermark
\* each job held when its attempt raised (until its next attempt that does
\* not), inicio the start of the window each job scanned last, md0 and
\* parcial the rollup table before the attempt that raised and the day rows
\* it had upserted, falhas the attempts that raised, retomou the jobs that
\* ran again after an attempt that raised
SemBg == [pc |-> "dosagens", ultimo |-> Epoca0, falhou |-> EmptyDict,
          inicio |-> EmptyDict, md0 |-> EmptyDict, parcial |-> 0, falhas |-> 0,
          retomou |-> {}]

\* the threads that write through GLOBAL_CONN: two pollers, the batch task
\* and the cleanup
Threads == {"p1", "p2", "bg", "cl"}
Pollers == {"p1", "p2"}

\* GLOBAL_CONN and DB_LOCK after get_global_conn: lock is the thread inside
\* "with DB_LOCK" ("" when free), pend the rows inserted in the open
\* transaction, del the stored rows it deleted, disco the committed rows
\* (what every other connection reads), pc each thread's position, k the
\* tags a poller's executemany has inserted, ciclo the writes each thread
\* has begun, falhas the executemany calls that raised
SemConn == [lock |-> "", pend |-> {}, del |-> {}, disco |-> {},
            pc |-> [t \in Threads |-> "idle"], k |-> 0,
            ciclo |-> [t \in Threads |-> 0], falhas |-> 0]

\* the tags of the polled device (register_map and coil_map)
Tags == {"Peso", "Operacao em andamento"}

\* poll_device before its first cycle: pc is the statement the loop is at,
\* data the values read in the cycle (all_data), linhas the rows of readings
\* the device has, as <<timestamp, tag, value>>, ciclo the cycles begun,
\* erro whether the cycle raised, salvas the rows the cycle appended
SemPoller == [pc |-> "top", data |-> [t \in Tags |-> Null], linhas |-> {},
              ciclo |-> 0, erro |-> FALSE, salvas |-> {}]

\* background_updater before its first cycle: pc is the statement the loop
\* is at, rodando the jobs that are running, feitos the jobs of the cycle
\* that have returned or raised, erro the jobs of the cycle that raised,
\* ciclo the cycles begun
SemUpdater == [pc |-> "try_dosagens", rodando |-> {}, feitos |-> {},
               erro |-> {}, ciclo |-> 0]

\* datetime.fromtimestamp(ts).isoformat(): an epoch shown on the local clock
fromtimestamp(ts, offset) == ts + offset

\* strftime('%s', timestamp): the stored text read as UTC
strftime_s(ts) == ts

(***************************************************************************)
(* The operation detector                                                  *)
(***************************************************************************)
\* settlement lookahead of the falling edge: alvo = ts + 10
JanelaSeg == 10

Destinos == {"Masseira_1", "Masseira_2"}

\* resultado = defaultdict(lambda: {"Masseira_1": [], "Masseira_2": []})
ResultadoVazio == [d \in Destinos |-> <<>>]

\* destino = "Masseira_1" if (v1i == 1 and v2i == 0) else "Masseira_2"
Destino(v1, v2) ==
    LET v1i == IF v1 = Null THEN 0 ELSE v1
        v2i == IF v2 = Null THEN 0 ELSE v2
    IN IF v1i = 1 /\ v2i = 0 THEN "Masseira_1" ELSE "Masseira_2"

\* the record of a rising edge that takes its start from the row before
MutOperacaoNova(r, offset) ==
    [inicio_ts |-> fromtimestamp(r.ts, offset) - 1,
     destino |-> Destino(r.v1, r.v2),
     qtd_solic_desc |-> r.qtd_solic,
     peso_inicio |-> r.peso,
     peso_fim |-> r.peso]
\* the record the rising edge stores in operacao_aberta[dev]
OperacaoNova(r, offset) ==
    [inicio_ts |-> fromtimestamp(r.ts, offset),
     destino |-> Destino(r.v1, r.v2),
     qtd_solic_desc |-> r.qtd_solic,
     peso_inicio |-> r.peso,
     peso_fim |-> r.peso]

\* the dict appended to resultado[dev][destino]
Registro(op_reg) ==
    [horario |-> op_reg.inicio_ts,
     qnt_solicitada |-> op_reg.qtd_solic_desc,
     peso_inicio |-> op_reg.peso_inicio,
     peso_fim |-> op_reg.peso_fim]

Append2(res, dev, op_reg) ==
    LET cur == Get(res, dev, ResultadoVazio)
    IN Put(res, dev, [cur EXCEPT ![op_reg.destino] = Append(@, Registro(op_reg))])

\* the rising edge without its test of the previous value
MutBordaSubida(prev, op, d, b) == op # Null /\ op = 1 /\ d = 1 /\ b = 1
\* the rising edge without its test of the two enabling signals
MutBordaSubidaLivre(prev, op, d, b) == op # Null /\ prev = 0 /\ op = 1
\* prev == 0 and op == 1 and d == 1 and b == 1
BordaSubida(prev, op, d, b) == op # Null /\ prev = 0 /\ op = 1 /\ d = 1 /\ b = 1

\* prev == 1 and op == 0
BordaDescida(prev, op) == op # Null /\ prev = 1 /\ op = 0

\* position of the row (ts, dev) in the scanned list; the first row when absent
PosicaoAtual(base, ts, dev) ==
    LET hits == {k \in 1..Len(base) : base[k].ts = ts /\ base[k].dev = dev}
    IN IF hits = {} THEN 1 ELSE Min(hits)

\* the forward scan that never finds a later row
MutBuscaPesoFim(base, j, dev, alvo, atual) == atual
\* forward scan over the same device for the first row with ts >= alvo
RECURSIVE BuscaPesoFim(_, _, _, _, _)
BuscaPesoFim(base, j, dev, alvo, atual) ==
    IF j > Len(base) \/ base[j].dev # dev THEN atual
    ELSE IF base[j].ts >= alvo
         THEN (IF base[j].peso # Null THEN base[j].peso ELSE atual)
         ELSE BuscaPesoFim(base, j + 1, dev, alvo, atual)

\* the lookahead aimed at the falling row's own timestamp
MutPesoFimAjustado(base, r, atual) ==
    BuscaPesoFim(base, PosicaoAtual(base, r.ts, r.dev) + 1, r.dev, r.ts, atual)
\* the end weight the falling edge at row r settles on
PesoFimAjustado(base, r, atual) ==
    BuscaPesoFim(base, PosicaoAtual(base, r.ts, r.dev) + 1, r.dev,
                 r.ts + JanelaSeg, atual)

\* One iteration of the for loop over the rows: st is the loop's state
\* [last_op, operacao_aberta, resultado], r the row, base the list the
\* lookahead scans.
DetStep(st, r, base, offset) ==
    LET dev == r.dev
        op == r.op_and
        d == IF r.d_sel = Null THEN 0 ELSE r.d_sel
        b == IF r.b_liga = Null THEN 0 ELSE r.b_liga
        prev == Get(st.last_op, dev, 0)
        ab1 == IF BordaSubida(prev, op, d, b)
               THEN Put(st.operacao_aberta, dev, OperacaoNova(r, offset))
               ELSE st.operacao_aberta
        ab2 == IF dev \in DOMAIN ab1 /\ op = 1 /\ r.peso # Null
               THEN [ab1 EXCEPT ![dev].peso_fim = r.peso]
               ELSE ab1
        lo == IF op # Null THEN Put(st.last_op, dev, op) ELSE st.last_op
    IN IF BordaDescida(prev, op)
       THEN IF dev \notin DOMAIN ab2
            THEN [last_op |-> Put(st.last_op, dev, op),
                  operacao_aberta |-> ab2,
                  resultado |-> st.resultado]
            ELSE LET fim == PesoFimAjustado(base, r, ab2[dev].peso_fim)
                     op_reg == [ab2[dev] EXCEPT !.peso_fim = fim]
                 IN [last_op |-> lo,
                     operacao_aberta |-> Pop(ab2, dev),
                     resultado |-> Append2(st.resultado, dev, op_reg)]
       ELSE [last_op |-> lo, operacao_aberta |-> ab2, resultado |-> st.resultado]

\* a return that leaves out the operations still open
MutFechaAbertas(abertas, res) == res
\* "Fechamento no fim do periodo": every open operation is appended
RECURSIVE FechaAbertas(_, _)
FechaAbertas(abertas, res) ==
    IF DOMAIN abertas = {} THEN res
    ELSE LET dev == CHOOSE x \in DOMAIN abertas : TRUE
         IN FechaAbertas(Pop(abertas, dev), Append2(res, dev, abertas[dev]))

DetInicio == [last_op |-> EmptyDict, operacao_aberta |-> EmptyDict,
              resultado |-> EmptyDict]

\* the loop's state after the first k rows
RECURSIVE ScanState(_, _, _, _)
ScanState(rs, base, k, offset) ==
    IF k = 0 THEN DetInicio
    ELSE DetStep(ScanState(rs, base, k - 1, offset), rs[k], base, offset)

\* the detector's return value for the fetched rows rs
Detecta(rs, base, offset) ==
    LET fim == ScanState(rs, base, Len(rs), offset)
    IN FechaAbertas(fim.operacao_aberta, fim.resultado)

(***************************************************************************)
(* Inputs of a detector run                                                *)
(***************************************************************************)
\* bounds of the enumerated inputs
MaxRows == 7
MaxRowsWide == 4

TanquesResina == <<"Tanque_1_Resina", "Tanque_2_Resina">>

\* the signal combinations a pivoted row carries:
\*   1: idle;  2: in progress, enabled, valve 1 only;
\*   3: in progress, discharge not selected, valve 2 only;
\*   4: in progress, enabled, both valves;
\*   5: in progress, start button off, valve 1 only;
\*   6: in progress, enabled, both valves closed;
\*   7: in progress, enabled, no valve value read;
\*   8: in progress, enabled, valve 1 open, valve 2 not read
Kinds == 1..4
KindsLong == 1..3
KindsBotao == {1, 2, 5}
KindsValvulas == {1, 2, 6, 7, 8}
OpOf(k) == IF k = 1 THEN 0 ELSE 1
DSelOf(k) == IF k = 3 THEN 0 ELSE 1
V1Of(k) == IF k \in {3, 6} THEN 0 ELSE IF k = 7 THEN Null ELSE 1
V2Of(k) == IF k \in {3, 4} THEN 1 ELSE IF k \in {7, 8} THEN Null ELSE 0
BLigaOf(k) == IF k = 5 THEN 0 ELSE 1

\* the pivoted row of a tank polled at second ts with signals of kind k; the
\* weight falls with time, so every row of a device has a weight of its own
AmostraP(dev, ts, k, peso) ==
    [ts |-> ts, dev |-> dev, d_sel |-> DSelOf(k), b_liga |-> BLigaOf(k),
     op_and |-> OpOf(k), v1 |-> V1Of(k), v2 |-> V2Of(k), qtd_solic |-> 50,
     peso |-> peso]
Amostra(dev, ts, k) == AmostraP(dev, ts, k, 205 - ts)

\* the n-th row of a device polled every gap seconds
MkRow(dev, n, gap, k) == Amostra(dev, 100 + n * gap, k)

Gaps == {5, 10}

\* rows of one device: a kind per poll
RowsOf(dev, gap, ks) == [n \in 1..Len(ks) |-> MkRow(dev, n, gap, ks[n])]

KindSeqs(K, lo, hi) == UNION {[1..n -> K] : n \in lo..hi}

\* one tank, up to MaxRows polls
InputsLong ==
    {RowsOf(TanquesResina[1], g, ks) : g \in Gaps, ks \in KindSeqs(KindsLong, 0, MaxRows)}

\* two tanks, up to MaxRowsWide polls in all, ORDER BY device, ts
InputsWide ==
    UNION {{RowsOf(TanquesResina[1], g, SubSeq(ks, 1, n1))
              \o RowsOf(TanquesResina[2], g, SubSeq(ks, n1 + 1, Len(ks))) :
              g \in Gaps, n1 \in 1..(Len(ks) - 1)} :
           ks \in KindSeqs(Kinds, 2, MaxRowsWide)}

\* one tank whose start button is off at some polls, up to MaxRowsWide polls
InputsBotao ==
    {RowsOf(TanquesResina[2], g, ks) : g \in Gaps, ks \in KindSeqs(KindsBotao, 1, MaxRowsWide)}

\* one tank whose valves are closed or not read at some polls
InputsValvulas ==
    {RowsOf(TanquesResina[2], 5, ks) : ks \in KindSeqs(KindsValvulas, 1, MaxRowsWide)}

DetInputs == InputsLong \cup InputsWide \cup InputsBotao \cup InputsValvulas

(***************************************************************************)
(* SpecDetect: one run of the detector, row by row                         *)
(***************************************************************************)
DetState == [last_op |-> last_op, operacao_aberta |-> operacao_aberta,
             resultado |-> resultado]

InitDetect ==
    /\ rows \in DetInputs
    /\ i = 1
    /\ last_op = EmptyDict
    /\ operacao_aberta = EmptyDict
    /\ resultado = EmptyDict
    /\ det_pc = "scan"
    /\ tz = 0
    /\ readings = {}
    /\ dosagens = <<>>
    /\ meta = EmptyDict
    /\ ops_log = SemLog
    /\ late_write = FALSE
    /\ masseira_daily = EmptyDict
    /\ energy_log = SemRuns
    /\ integrated = EmptyDict
    /\ overview = EmptyDict
    /\ upserts = <<>>
    /\ bg = SemBg
    /\ conn = SemConn
    /\ poller = SemPoller
    /\ updater = SemUpdater
    /\ now = [s |-> 0, f |-> 0]

\* one iteration of "for ts, dev, ... in rows"
ScanRow ==
    /\ det_pc = "scan"
    /\ i <= Len(rows)
    /\ LET st == DetStep(DetState, rows[i], rows, tz)
       IN /\ last_op' = st.last_op
          /\ operacao_aberta' = st.operacao_aberta
          /\ resultado' = st.resultado
    /\ i' = i + 1
    /\ UNCHANGED <<rows, det_pc, tz, storeVars, ledgerVars, energyVars, overview, upserts, bg, conn, poller, updater>>

\* the loop after the scan: close what is still open, return
FechaFimPeriodo ==
    /\ det_pc = "scan"
    /\ i > Len(rows)
    /\ resultado' = FechaAbertas(operacao_aberta, resultado)
    /\ operacao_aberta' = EmptyDict
    /\ det_pc' = "done"
    /\ UNCHANGED <<rows, i, last_op, tz, storeVars, ledgerVars, energyVars, overview, upserts, bg, conn, poller, updater>>

NextDetect == ScanRow \/ FechaFimPeriodo

SpecDetect == InitDetect /\ [][NextDetect]_vars

(***************************************************************************)
(* Timestamp texts and the readings table                                  *)
(***************************************************************************)
\* text comparison a <= b of two ISO texts of the same format
TsLE(a, b) == a.s < b.s \/ (a.s = b.s /\ a.f <= b.f)

\* timestamp BETWEEN ? AND ? on a reading written with microsecond = 0
NaJanela(ts, start_iso, end_iso) == TsLE(start_iso, Iso(ts, 0)) /\ TsLE(Iso(ts, 0), end_iso)

\* device LIKE '%Resina' / '%Agua'
TipoDe(dev) ==
    IF dev \in {"Tanque_1_Resina", "Tanque_2_Resina"} THEN "Resina"
    ELSE IF dev \in {"Tanque_1_Agua", "Tanque_2_Agua"} THEN "Agua"
    ELSE "Outro"

\* ORDER BY device
DevOrder == <<"Masseira_1", "Masseira_2", "Tanque_1_Agua", "Tanque_1_Resina",
              "Tanque_2_Agua", "Tanque_2_Resina">>
DevRank(dev) == CHOOSE n \in 1..Len(DevOrder) : DevOrder[n] = dev

\* ORDER BY device, ts
RowLE(a, b) == DevRank(a.dev) < DevRank(b.dev) \/ (a.dev = b.dev /\ a.ts <= b.ts)
RECURSIVE OrdenaRows(_)
OrdenaRows(S) ==
    IF S = {} THEN <<>>
    ELSE LET r == CHOOSE x \in S : \A y \in S : RowLE(x, y)
         IN <<r>> \o OrdenaRows(S \ {r})

\* the operations query: the tank rows of one tipo inside the window, with
\* HAVING OpAndamento, BotaoLiga, Peso NOT NULL, ORDER BY device, ts
FetchOpsRows(rd, start_iso, end_iso, tipo) ==
    OrdenaRows({[r EXCEPT !.ts = strftime_s(r.ts)] : r \in
        {x \in rd : /\ TipoDe(x.dev) = tipo
                    /\ NaJanela(x.ts, start_iso, end_iso)
                    /\ x.op_and # Null /\ x.b_liga # Null /\ x.peso # Null}})

\* calcula_operacoes_descarga_tanques(start_ts, end_ts, tipo), the windowed
\* form update_dosagens_table calls: the detector over the rows of the window
OperacoesNaJanela(rd, start_iso, end_iso, tipo, offset) ==
    LET rs == FetchOpsRows(rd, start_iso, end_iso, tipo)
    IN Detecta(rs, rs, offset)

(***************************************************************************)
(* The dosagens ledger                                                     *)
(***************************************************************************)
\* float(x or 0)
Num0(x) == IF x = Null THEN 0 ELSE x

\* the operations of a detector result as a list, device by device
RECURSIVE ListaOps(_, _)
ListaOps(ops_dict, n) ==
    IF n > Len(DevOrder) THEN <<>>
    ELSE LET dev == DevOrder[n]
             cur == Get(ops_dict, dev, ResultadoVazio)
             item(d) == [k \in 1..Len(cur[d]) |-> [dev |-> dev, destino |-> d, op |-> cur[d][k]]]
         IN item("Masseira_1") \o item("Masseira_2") \o ListaOps(ops_dict, n + 1)

\* SELECT COUNT(*) FROM dosagens WHERE device=? AND timestamp_start=?  > 0
MutJaExiste(tab, dev, ts_start) == FALSE
JaExiste(tab, dev, ts_start) ==
    \E n \in 1..Len(tab) : tab[n].device = dev /\ tab[n].timestamp_start = ts_start

\* UNIQUE(device, timestamp_start, tipo, destino)
ViolaUnique(tab, row) ==
    \E n \in 1..Len(tab) :
        /\ tab[n].device = row.device /\ tab[n].timestamp_start = row.timestamp_start
        /\ tab[n].tipo = row.tipo /\ tab[n].destino = row.destino

LinhaDosagem(it, tipo) ==
    [timestamp_start |-> it.op.horario, device |-> it.dev, tipo |-> tipo,
     destino |-> it.destino, qnt_solicitada |-> it.op.qnt_solicitada,
     peso_inicio |-> it.op.peso_inicio, peso_fim |-> it.op.peso_fim,
     peso_real |-> Num0(it.op.peso_inicio) - Num0(it.op.peso_fim)]

\* a duplicate counted as an insert
MutContaPulada(acc) == [acc EXCEPT !.skipped = @ + 1, !.inserted = @ + 1]
\* "if c.fetchone()[0] > 0: continue": the duplicate leaves inserted alone
ContaPulada(acc) == [acc EXCEPT !.skipped = @ + 1]

\* _insert_dosagens over the first n operations of the list: the table, the
\* count returned, the duplicates skipped, and whether an INSERT raised
RECURSIVE InsereDosagens(_, _, _, _)
InsereDosagens(tab, lista, tipo, n) ==
    IF n = 0 THEN [tab |-> tab, inserted |-> 0, skipped |-> 0, err |-> FALSE]
    ELSE LET acc == InsereDosagens(tab, lista, tipo, n - 1)
             it == lista[n]
             row == LinhaDosagem(it, tipo)
         IN IF acc.err \/ it.op.horario = Null THEN acc
            ELSE IF JaExiste(acc.tab, it.dev, it.op.horario)
                 THEN ContaPulada(acc)
            ELSE IF ViolaUnique(acc.tab, row) THEN [acc EXCEPT !.err = TRUE]
            ELSE [acc EXCEPT !.tab = Append(@, row), !.inserted = @ + 1]

_insert_dosagens(tab, ops_dict, tipo) ==
    LET lista == ListaOps(ops_dict, 1)
    IN InsereDosagens(tab, lista, tipo, Len(lista))

(***************************************************************************)
(* SpecLedger: pollers of two tanks and the operations batch               *)
(***************************************************************************)
\* bounds: samples stored, clock steps of 5 s
MaxSamples == 3
MaxSteps == 1

TanquesLedger == {"Tanque_1_Resina", "Tanque_1_Agua"}
KindsOfTank(dev) == IF dev = "Tanque_1_Resina" THEN {1, 2} ELSE {2}

InitLedger ==
    /\ rows = <<>> /\ i = 1 /\ last_op = EmptyDict /\ operacao_aberta = EmptyDict
    /\ resultado = EmptyDict /\ det_pc = "off"
    /\ readings = {}
    /\ dosagens = <<>>
    /\ meta = EmptyDict
    /\ ops_log = SemLog
    /\ late_write = FALSE
    /\ masseira_daily = EmptyDict
    /\ energy_log = SemRuns
    /\ integrated = EmptyDict
    /\ overview = EmptyDict
    /\ upserts = <<>>
    /\ bg = SemBg
    /\ conn = SemConn
    /\ poller = SemPoller
    /\ updater = SemUpdater
    /\ now = Iso(100, 0)
    /\ tz = 0

\* the clock moves on: within the second, then to the next poll time
Tick ==
    /\ now.s < 100 + 5 * MaxSteps
    /\ now' = IF now.f = 0 THEN Iso(now.s, 1) ELSE Iso(now.s + 5, 0)
    /\ UNCHANGED <<detVars, readings, meta, ledgerVars, energyVars, overview, upserts, bg, tz, conn, poller, updater>>

\* save_to_sqlite of one poll cycle of a tank: timestamp = now without its
\* microseconds
PollTank(dev, k) ==
    /\ Cardinality(readings) < MaxSamples
    /\ \A r \in readings : ~(r.dev = dev /\ r.ts = now.s)
    /\ readings' = readings \cup {Amostra(dev, now.s, k)}
    /\ late_write' = (late_write \/
          ("last_ops_ts" \in DOMAIN meta /\ ~TsLE(meta["last_ops_ts"], Iso(now.s, 0))))
    /\ UNCHANGED <<detVars, dosagens, meta, ops_log, energyVars, now, overview, upserts, bg, tz, conn, poller, updater>>

\* update_dosagens_table, one whole run
UpdateDosagens ==
    LET start_ts == Get(meta, "last_ops_ts", Epoca0)
        end_ts == now
        ops_resina == OperacoesNaJanela(readings, start_ts, end_ts, "Resina", tz)
        ops_agua == OperacoesNaJanela(readings, start_ts, end_ts, "Agua", tz)
        res == _insert_dosagens(dosagens, ops_resina, "Resina")
        agu == IF res.err THEN [res EXCEPT !.inserted = 0, !.skipped = 0]
               ELSE _insert_dosagens(res.tab, ops_agua, "Agua")
    IN /\ dosagens' = agu.tab
       /\ meta' = IF agu.err THEN meta ELSE Put(meta, "last_ops_ts", end_ts)
       /\ ops_log' = [start_ts |-> start_ts, end_ts |-> end_ts,
                      inserted |-> res.inserted + agu.inserted,
                      skipped |-> res.skipped + agu.skipped,
                      err |-> agu.err,
                      seen |-> Cardinality(readings)]
       /\ UNCHANGED <<detVars, readings, late_write, energyVars, now, overview, upserts, bg, tz, conn, poller, updater>>

NextLedger ==
    \/ Tick
    \/ \E dev \in TanquesLedger : \E k \in KindsOfTank(dev) : PollTank(dev, k)
    \/ UpdateDosagens

SpecLedger == InitLedger /\ [][NextLedger]_vars

(***************************************************************************)
(* The masseira_daily rollup                                               *)
(***************************************************************************)
\* strftime('%Y-%m-%d', timestamp): the day of a timestamp
DiaSeg == 86400
Dia(ts) == ts \div DiaSeg

\* the clip of _clip_5min_expr: dt_h <= 5.0/60.0, in seconds
LimiteSeg == 300

\* strftime('%s', timestamp) - strftime('%s', prev_ts)
MutDeltaSeg(prev_ts, ts) == prev_ts - ts
DeltaSeg(prev_ts, ts) == ts - prev_ts

\* dt_h of a row, in seconds: 0 without a previous row or beyond the clip
MutClipDt(prev_ts, ts) == IF prev_ts = Null THEN 0 ELSE DeltaSeg(prev_ts, ts)
ClipDt(prev_ts, ts) ==
    IF prev_ts = Null THEN 0
    ELSE IF DeltaSeg(prev_ts, ts) <= LimiteSeg THEN DeltaSeg(prev_ts, ts) ELSE 0

\* ROUND(x, 6) of n / 3600 = n * 10^6 / 3600 millionths, rounded to the
\* nearest: kW*s to micro-kWh, seconds to micro-hours
Round6(n) ==
    IF n >= 0 THEN (n * 5000 + 9) \div 18
    ELSE 0 - ((9 - n * 5000) \div 18)

\* ORDER BY timestamp of the readings of one device
RECURSIVE OrdenaTs(_)
OrdenaTs(S) ==
    IF S = {} THEN <<>>
    ELSE LET r == CHOOSE x \in S : \A y \in S : x.ts <= y.ts
         IN <<r>> \o OrdenaTs(S \ {r})

\* pivot: the rows of the device with timestamp BETWEEN start and end
Pivot(rd, dev, start_iso, end_iso) ==
    OrdenaTs({r \in rd : r.dev = dev /\ NaJanela(r.ts, start_iso, end_iso)})

\* seq and deltas: every row with the LAG of power, freq and timestamp
Deltas(pv) ==
    [n \in 1..Len(pv) |->
        LET prev_ts == IF n = 1 THEN Null ELSE pv[n - 1].ts
        IN [day |-> Dia(pv[n].ts), timestamp |-> pv[n].ts,
            dt_h |-> ClipDt(prev_ts, pv[n].ts),
            prev_ts |-> prev_ts,
            prev_power |-> IF n = 1 THEN Null ELSE pv[n - 1].power,
            prev_freq |-> IF n = 1 THEN Null ELSE pv[n - 1].freq,
            curr_mag |-> pv[n].curr_mag]]

\* SUM(CASE WHEN prev_power IS NOT NULL THEN prev_power * dt_h ELSE 0 END)
RECURSIVE SumEnergia(_, _, _)
SumEnergia(ds, day, n) ==
    IF n = 0 THEN 0
    ELSE SumEnergia(ds, day, n - 1) +
         (IF ds[n].day = day /\ ds[n].prev_power # Null
          THEN ds[n].prev_power * ds[n].dt_h ELSE 0)

\* SUM(CASE WHEN prev_freq > 0 THEN dt_h ELSE 0 END)
RECURSIVE SumHoras(_, _, _)
SumHoras(ds, day, n) ==
    IF n = 0 THEN 0
    ELSE SumHoras(ds, day, n - 1) +
         (IF ds[n].day = day /\ ds[n].prev_freq # Null /\ ds[n].prev_freq > 0
          THEN ds[n].dt_h ELSE 0)

\* MAX(curr_mag): NULL when every value is NULL
MaxOrNull(S) == IF S \ {Null} = {} THEN Null ELSE Max(S \ {Null})

\* the SELECT ... GROUP BY day, device ORDER BY day of one device and window
RollupRows(rd, dev, start_iso, end_iso) ==
    LET ds == Deltas(Pivot(rd, dev, start_iso, end_iso))
        idx(day) == {n \in 1..Len(ds) : ds[n].day = day}
        linha(day) ==
            [day |-> day, device |-> dev,
             energia_kWh |-> Round6(SumEnergia(ds, day, Len(ds))),
             horas_operacao |-> Round6(SumHoras(ds, day, Len(ds))),
             corrente_max |-> MaxOrNull({ds[n].curr_mag : n \in idx(day)}),
             first_ts |-> Min({ds[n].timestamp : n \in idx(day)}),
             last_ts |-> Max({ds[n].timestamp : n \in idx(day)}),
             samples |-> Cardinality(idx(day))]
        RECURSIVE porDia(_)
        porDia(days) ==
            IF days = {} THEN <<>>
            ELSE <<linha(Min(days))>> \o porDia(days \ {Min(days)})
    IN porDia({ds[n].day : n \in 1..Len(ds)})

\* COALESCE(masseira_daily.x, 0) + COALESCE(excluded.x, 0)
MutMergeSoma(old, novo) == novo
MergeSoma(old, novo) == Num0(old) + Num0(novo)

\* CASE WHEN old IS NULL THEN new WHEN new IS NULL THEN old
\*      WHEN new > old THEN new ELSE old END
MutMergeMax(old, novo) == novo
MergeMax(old, novo) ==
    IF old = Null THEN novo
    ELSE IF novo = Null THEN old
    ELSE IF novo > old THEN novo
    ELSE old

\* COALESCE(masseira_daily.first_ts, excluded.first_ts)
MergeFirst(old, novo) == IF old # Null THEN old ELSE novo

\* INSERT ... ON CONFLICT(date, device) DO UPDATE of one row
_upsert_masseira_daily_row(md, row, updated_at) ==
    LET key == <<row.day, row.device>>
        novo == [energia_kWh |-> row.energia_kWh,
                 horas_operacao |-> row.horas_operacao,
                 corrente_max |-> row.corrente_max,
                 first_ts |-> row.first_ts, last_ts |-> row.last_ts,
                 samples |-> row.samples, updated_at |-> updated_at]
    IN IF key \notin DOMAIN md THEN Put(md, key, novo)
       ELSE LET old == md[key]
            IN Put(md, key,
                 [energia_kWh |-> MergeSoma(old.energia_kWh, novo.energia_kWh),
                  horas_operacao |-> MergeSoma(old.horas_operacao, novo.horas_operacao),
                  corrente_max |-> MergeMax(old.corrente_max, novo.corrente_max),
                  first_ts |-> MergeFirst(old.first_ts, novo.first_ts),
                  last_ts |-> MergeMax(old.last_ts, novo.last_ts),
                  samples |-> MergeSoma(old.samples, novo.samples),
                  updated_at |-> updated_at])

\* for (day, device, ...) in rows: _upsert_masseira_daily_row(...)
RECURSIVE UpsertRows(_, _, _, _)
UpsertRows(md, rs, n, updated_at) ==
    IF n = 0 THEN md
    ELSE _upsert_masseira_daily_row(UpsertRows(md, rs, n - 1, updated_at), rs[n], updated_at)

\* meta_key = f"last_energy_ts_{dev}"
MetaKey(dev) == IF dev = "Masseira_1" THEN "last_energy_ts_Masseira_1"
                ELSE "last_energy_ts_Masseira_2"

\* the body of "for dev in DEVICES" on the state st = [md, meta]
RollupDevice(st, rd, dev, end_ts) ==
    LET start_ts == Get(st.meta, MetaKey(dev), Epoca0)
        rs == RollupRows(rd, dev, start_ts, end_ts)
    IN [md |-> UpsertRows(st.md, rs, Len(rs), end_ts),
        meta |-> IF rs # <<>> THEN Put(st.meta, MetaKey(dev), end_ts) ELSE st.meta]

\* update_masseira_daily on the tables (md, meta) at the clock reading end_ts
RollupRun(md, mt, rd, end_ts) ==
    RollupDevice(RollupDevice([md |-> md, meta |-> mt], rd, Masseiras[1], end_ts),
                 rd, Masseiras[2], end_ts)

(***************************************************************************)
(* calcular_totais_masseiras: the on-demand totals of a window             *)
(***************************************************************************)
\* the KPI query: device LIKE 'Masseira%', timestamp BETWEEN, ORDER BY device, ts
FetchKpiRows(rd, start_iso, end_iso) ==
    OrdenaRows({[r EXCEPT !.ts = strftime_s(r.ts)] : r \in
        {x \in rd : x.dev \in {Masseiras[1], Masseiras[2]}
                    /\ NaJanela(x.ts, start_iso, end_iso)}})

TotInicio == [energia |-> EmptyDict, horas |-> EmptyDict, corrente_max |-> EmptyDict,
              last_ts |-> EmptyDict, last_power |-> EmptyDict, last_freq |-> EmptyDict]

\* one iteration of "for ts, dev, power, freq, curr_mag in c"
TotStep(st, r) ==
    LET dev == r.dev
        pm == Get(st.corrente_max, dev, Null)
        cmax == IF r.curr_mag # Null /\ (pm = Null \/ r.curr_mag > pm)
                THEN Put(st.corrente_max, dev, r.curr_mag) ELSE st.corrente_max
        visto == dev \in DOMAIN st.last_ts
        dt == IF visto THEN DeltaSeg(st.last_ts[dev], r.ts) ELSE 0
        prev_power == Get(st.last_power, dev, Null)
        prev_freq == Get(st.last_freq, dev, Null)
        en == IF visto /\ prev_power # Null
              THEN Put(st.energia, dev, Get(st.energia, dev, 0) + prev_power * dt)
              ELSE st.energia
        ho == IF visto /\ prev_freq # Null /\ prev_freq > 0
              THEN Put(st.horas, dev, Get(st.horas, dev, 0) + dt)
              ELSE st.horas
    IN [energia |-> en, horas |-> ho, corrente_max |-> cmax,
        last_ts |-> Put(st.last_ts, dev, r.ts),
        last_power |-> IF r.power # Null THEN Put(st.last_power, dev, r.power)
                       ELSE st.last_power,
        last_freq |-> IF r.freq # Null THEN Put(st.last_freq, dev, r.freq)
                      ELSE st.last_freq]

RECURSIVE TotScan(_, _)
TotScan(rs, n) == IF n = 0 THEN TotInicio ELSE TotStep(TotScan(rs, n - 1), rs[n])

\* round(x, 2) of n / 3600 = n / 36 hundredths, rounded to the nearest:
\* kW*s to centi-kWh, seconds to centi-hours
Round2(n) ==
    IF n >= 0 THEN (n + 18) \div 36
    ELSE 0 - ((18 - n) \div 36)

\* the result dict of calcular_totais_masseiras for the window
TotaisMasseiras(rd, start_iso, end_iso) ==
    LET rs == FetchKpiRows(rd, start_iso, end_iso)
        st == TotScan(rs, Len(rs))
        devices == (DOMAIN st.energia) \cup (DOMAIN st.horas) \cup (DOMAIN st.corrente_max)
    IN [dev \in devices |->
          [energia_kWh |-> Round2(Get(st.energia, dev, 0)),
           horas_operacao |-> Round2(Get(st.horas, dev, 0)),
           corrente_max |-> Get(st.corrente_max, dev, Null)]]

(***************************************************************************)
(* SpecEnergy: pollers of the two masseiras and the rollup batch           *)
(***************************************************************************)
\* a masseira sample: kind 1 runs under load, kind 2 reports no power but
\* turns, kind 3 draws power and stands still
KindsM == 1..3
PowerOf(k) == IF k = 1 THEN 2 ELSE IF k = 2 THEN Null ELSE 3
FreqOf(k) == IF k = 3 THEN 0 ELSE 50
CurrOf(k) == IF k = 1 THEN 4 ELSE IF k = 2 THEN Null ELSE 5
AmostraM(dev, ts, k) ==
    [ts |-> ts, dev |-> dev, power |-> PowerOf(k), freq |-> FreqOf(k),
     curr_mag |-> CurrOf(k)]

\* the clock starts one clip before midnight and steps by the clip or by
\* one second more
InicioEnergy == DiaSeg - LimiteSeg

\* bounds: masseira samples stored, clock steps
MaxPolls == 3
MaxPassos == 2
PassosEnergy == {LimiteSeg, LimiteSeg + 1}

InitEnergy ==
    /\ rows = <<>> /\ i = 1 /\ last_op = EmptyDict /\ operacao_aberta = EmptyDict
    /\ resultado = EmptyDict /\ det_pc = "off"
    /\ readings = {}
    /\ dosagens = <<>>
    /\ meta = EmptyDict
    /\ ops_log = SemLog
    /\ late_write = FALSE
    /\ masseira_daily = EmptyDict
    /\ energy_log = SemRuns
    /\ integrated = EmptyDict
    /\ overview = EmptyDict
    /\ upserts = <<>>
    /\ bg = SemBg
    /\ conn = SemConn
    /\ poller = SemPoller
    /\ updater = SemUpdater
    /\ now = Iso(InicioEnergy, 0)
    /\ tz = 0

TickEnergy ==
    /\ now.s < InicioEnergy + LimiteSeg * MaxPassos
    /\ \E g \in PassosEnergy :
          now' = IF now.f = 0 THEN Iso(now.s, 1) ELSE Iso(now.s + g, 0)
    /\ UNCHANGED <<detVars, readings, meta, ledgerVars, energyVars, overview, upserts, bg, tz, conn, poller, updater>>

\* save_to_sqlite of one poll cycle of a masseira; Masseira_2 is offline, and
\* a cycle whose values are all None stores nothing
PollMasseira(dev, k) ==
    /\ Cardinality(readings) < MaxPolls
    /\ \A r \in readings : ~(r.dev = dev /\ r.ts = now.s)
    /\ readings' = readings \cup {AmostraM(dev, now.s, k)}
    /\ late_write' = (late_write \/
          (MetaKey(dev) \in DOMAIN meta /\ ~TsLE(meta[MetaKey(dev)], Iso(now.s, 0))))
    /\ UNCHANGED <<detVars, dosagens, meta, ops_log, energyVars, now, overview, upserts, bg, tz, conn, poller, updater>>

\* the intervals a run sums: the consecutive rows of its window within the clip
Somados(rd, dev, start_iso, end_iso) ==
    LET ds == Deltas(Pivot(rd, dev, start_iso, end_iso))
    IN {<<dev, ds[n].prev_ts, ds[n].timestamp>> : n \in {m \in 1..Len(ds) : ds[m].dt_h > 0}}

\* update_masseira_daily, one whole run; two runs are never at the same
\* clock reading
UpdateMasseiraDaily ==
    LET end_ts == now
        run == RollupRun(masseira_daily, meta, readings, end_ts)
        start(dev) == Get(meta, MetaKey(dev), Epoca0)
        teve(dev) == Pivot(readings, dev, start(dev), end_ts) # <<>>
        novos == UNION {Somados(readings, dev, start(dev), end_ts) :
                        dev \in {Masseiras[1], Masseiras[2]}}
    IN /\ energy_log.last_end # now
       /\ masseira_daily' = run.md
       /\ meta' = run.meta
       /\ energy_log' =
            [last_end |-> end_ts,
             dev |-> [d \in DOMAIN energy_log.dev |->
                 IF teve(d)
                 THEN [runs |-> energy_log.dev[d].runs + 1,
                       start_ts |-> start(d),
                       seen |-> Cardinality({r \in readings : r.dev = d})]
                 ELSE energy_log.dev[d]]]
       /\ integrated' = [p \in (DOMAIN integrated) \cup novos |->
                            Get(integrated, p, 0) + (IF p \in novos THEN 1 ELSE 0)]
       /\ UNCHANGED <<detVars, readings, ledgerVars, now, overview, upserts, bg, tz, conn, poller, updater>>

NextEnergy ==
    \/ TickEnergy
    \/ \E k \in KindsM : PollMasseira(Masseiras[1], k)
    \/ UpdateMasseiraDaily

SpecEnergy == InitEnergy /\ [][NextEnergy]_vars

(***************************************************************************)
(* calcular_overview_multi: the overview of several periods at once        *)
(***************************************************************************)
\* _periodo_para_datas at the clock reading agora: (start, end) as ISO texts;
\* the calendar periods mtd and ytd are left out
_periodo_para_datas(periodo, agora) ==
    LET meia_noite == Iso(Dia(agora.s) * DiaSeg, 0)
    IN IF periodo = "hoje" THEN <<meia_noite, agora>>
       ELSE IF periodo = "ontem"
            THEN <<Iso(meia_noite.s - DiaSeg, 0), Iso(meia_noite.s - 1, 1)>>
       ELSE IF periodo = "30d" THEN <<Iso(agora.s - 30 * DiaSeg, agora.f), agora>>
       ELSE <<Iso(agora.s - 7 * DiaSeg, agora.f), agora>>

\* int(datetime.fromisoformat(iso).timestamp()): the text read on the local
\* clock, as whole epoch seconds
timestamp(iso, offset) == iso.s - offset

_periodo_para_epochs(periodo, agora, offset) ==
    LET b == _periodo_para_datas(periodo, agora)
    IN <<timestamp(b[1], offset), timestamp(b[2], offset)>>

\* min() and max() of ISO texts
MinIso(S) == CHOOSE x \in S : \A y \in S : TsLE(x, y)
MaxIso(S) == CHOOSE x \in S : \A y \in S : TsLE(y, x)

\* "if ts < s_ep or ts > e_ep: continue" over the base rows
NoPeriodo(rs, ep) == SelectSeq(rs, LAMBDA r : ~(r.ts < ep[1] \/ r.ts > ep[2]))

\* ops_for_period: the detector loop over the rows of the period, its
\* lookahead scanning the base rows
ops_for_period(ops_rows, ep, offset) == Detecta(NoPeriodo(ops_rows, ep), ops_rows, offset)

\* kpi_for_period: the totals loop over the rows of the period
kpi_for_period(kpi_rows, ep) ==
    LET rs == NoPeriodo(kpi_rows, ep)
        st == TotScan(rs, Len(rs))
        devices == (DOMAIN st.energia) \cup (DOMAIN st.horas) \cup (DOMAIN st.corrente_max)
    IN [dev \in devices |->
          [energia_kWh |-> Round2(Get(st.energia, dev, 0)),
           horas_operacao |-> Round2(Get(st.horas, dev, 0)),
           corrente_max |-> Get(st.corrente_max, dev, Null)]]

\* _sum_ops_total and _sum_ops_by_masseira over a detector result
RECURSIVE SomaOps(_, _, _)
SomaOps(lista, n, destinos) ==
    IF n = 0 THEN [dosada |-> 0, real |-> 0, num |-> 0]
    ELSE LET acc == SomaOps(lista, n - 1, destinos)
             op == lista[n].op
         IN IF lista[n].destino \notin destinos THEN acc
            ELSE [dosada |-> acc.dosada + Num0(op.qnt_solicitada),
                  real |-> acc.real + (Num0(op.peso_inicio) - Num0(op.peso_fim)),
                  num |-> acc.num + 1]
_sum_ops_total(ops_dict) ==
    LET lista == ListaOps(ops_dict, 1) IN SomaOps(lista, Len(lista), Destinos)
_sum_ops_by_masseira(ops_dict) ==
    LET lista == ListaOps(ops_dict, 1)
    IN [d \in Destinos |-> SomaOps(lista, Len(lista), {d})]

\* round(a / n, 2) of two amounts in hundredths, to the nearest hundredth; an
\* exact half follows the binary value of the float, which is upwards for
\* the quotients of the stores used here (0.17 / 2 and 22.17 / 2)
DivRound(a, n) == (2 * a + n) \div (2 * n)

\* a per-operation figure that forgets to divide
MutPorTaxada(valor, num) == valor
\* (valor / num_taxadas) if num_taxadas > 0 else 0.0
PorTaxada(valor, num) == IF num > 0 THEN DivRound(valor, num) ELSE 0

\* calcular_overview_multi(periodos) over the stored readings at the clock
\* reading agora: dict period -> its overview
calcular_overview_multi(rd, periodos, agora, offset) ==
    LET ps == {periodos[n] : n \in 1..Len(periodos)}
        base_start_iso == MinIso({_periodo_para_datas(p, agora)[1] : p \in ps})
        base_end_iso == MaxIso({_periodo_para_datas(p, agora)[2] : p \in ps})
        kpi_rows == FetchKpiRows(rd, base_start_iso, base_end_iso)
        ops_rows_resina == FetchOpsRows(rd, base_start_iso, base_end_iso, "Resina")
        ops_rows_agua == FetchOpsRows(rd, base_start_iso, base_end_iso, "Agua")
        saida(p) ==
            LET ep == _periodo_para_epochs(p, agora, offset)
                kpi == kpi_for_period(kpi_rows, ep)
                ops_res == ops_for_period(ops_rows_resina, ep, offset)
                ops_agu == ops_for_period(ops_rows_agua, ep, offset)
                tot_res == _sum_ops_total(ops_res)
                tot_agu == _sum_ops_total(ops_agu)
                res_m == _sum_ops_by_masseira(ops_res)
                agu_m == _sum_ops_by_masseira(ops_agu)
            IN [period |-> p,
                masseiras |-> [dev \in DOMAIN kpi |->
                    [energia_kWh |-> kpi[dev].energia_kWh,
                     corrente_max_A |-> kpi[dev].corrente_max,
                     agua_dosada |-> agu_m[dev].dosada,
                     agua_real_dosada |-> agu_m[dev].real,
                     resina_dosada |-> res_m[dev].dosada,
                     resina_real_dosada |-> res_m[dev].real,
                     num_taxadas |-> res_m[dev].num,
                     tempo_medio_taxada_min |->
                         PorTaxada(kpi[dev].horas_operacao * 60, res_m[dev].num),
                     energia_por_taxada_kWh |->
                         PorTaxada(kpi[dev].energia_kWh, res_m[dev].num),
                     horas_operacao |-> kpi[dev].horas_operacao]],
                materias_primas |->
                    [resina_dosada |-> tot_res.dosada, resina_real |-> tot_res.real,
                     agua_dosada |-> tot_agu.dosada, agua_real |-> tot_agu.real],
                totais_gerais |->
                    [energia_kWh |-> SomaFn([dev \in DOMAIN kpi |-> kpi[dev].energia_kWh]),
                     total_taxadas |-> tot_res.num,
                     horas_operacao |-> SomaFn([dev \in DOMAIN kpi |-> kpi[dev].horas_operacao])]]
    IN IF periodos = <<>> THEN EmptyDict ELSE [p \in ps |-> saida(p)]

(***************************************************************************)
(* calcular_overview: the overview of one period                           *)
(***************************************************************************)
\* calcula_operacoes_descarga_tanques(periodo, tipo): the rows of the period
\* window, then the detector loop, its lookahead scanning the same rows
calcula_operacoes_descarga_tanques(rd, periodo, tipo, agora, offset) ==
    LET b == _periodo_para_datas(periodo, agora)
        rs == FetchOpsRows(rd, b[1], b[2], tipo)
    IN Detecta(rs, rs, offset)

\* calcular_totais_masseiras(periodo)
calcular_totais_masseiras(rd, periodo, agora) ==
    LET b == _periodo_para_datas(periodo, agora)
    IN TotaisMasseiras(rd, b[1], b[2])

\* calcular_overview(periodo) over the stored readings at the clock reading
\* agora
calcular_overview(rd, periodo, agora, offset) ==
    LET kpi_m == calcular_totais_masseiras(rd, periodo, agora)
        ops_resina == calcula_operacoes_descarga_tanques(rd, periodo, "Resina", agora, offset)
        ops_agua == calcula_operacoes_descarga_tanques(rd, periodo, "Agua", agora, offset)
        agg_resina_by_m == _sum_ops_by_masseira(ops_resina)
        agg_agua_by_m == _sum_ops_by_masseira(ops_agua)
        tot_resina == _sum_ops_total(ops_resina)
        tot_agua == _sum_ops_total(ops_agua)
    IN [period |-> periodo,
        masseiras |-> [dev \in DOMAIN kpi_m |->
            [energia_kWh |-> kpi_m[dev].energia_kWh,
             corrente_max_A |-> kpi_m[dev].corrente_max,
             agua_dosada |-> agg_agua_by_m[dev].dosada,
             agua_real_dosada |-> agg_agua_by_m[dev].real,
             resina_dosada |-> agg_resina_by_m[dev].dosada,
             resina_real_dosada |-> agg_resina_by_m[dev].real,
             num_taxadas |-> agg_resina_by_m[dev].num,
             tempo_medio_taxada_min |->
                 PorTaxada(kpi_m[dev].horas_operacao * 60, agg_resina_by_m[dev].num),
             energia_por_taxada_kWh |->
                 PorTaxada(kpi_m[dev].energia_kWh, agg_resina_by_m[dev].num),
             horas_operacao |-> kpi_m[dev].horas_operacao]],
        materias_primas |->
            [resina_dosada |-> tot_resina.dosada, resina_real |-> tot_resina.real,
             agua_dosada |-> tot_agua.dosada, agua_real |-> tot_agua.real],
        totais_gerais |->
            [energia_kWh |-> SomaFn([dev \in DOMAIN kpi_m |-> kpi_m[dev].energia_kWh]),
             total_taxadas |-> tot_resina.num,
             horas_operacao |-> SomaFn([dev \in DOMAIN kpi_m |-> kpi_m[dev].horas_operacao])]]

(***************************************************************************)
(* SpecOverview: overview requests over a fixed store at a fixed time      *)
(***************************************************************************)
\* the reference time: 10:00 and a fraction on the ninth day of the store
MeiaNoite == 8 * DiaSeg
Agora == Iso(MeiaNoite + 10 * 3600, 1)

\* host zones: UTC-3, UTC, UTC+3
Fusos == {0 - 3 * 3600, 0, 3 * 3600}

\* when an operation may have started: 22:00 the day before, 01:00, 09:00
Inicios8 == {MeiaNoite - 2 * 3600, MeiaNoite + 3600, MeiaNoite + 9 * 3600}

\* the samples of a resin operation started at t: complete or still open
\* the tank is refilled between operations: its weight at the start of the
\* operation of slot t, one unit more per hour of the slot
PesoEm(t) == 100 + (t - (MeiaNoite - 2 * 3600)) \div 3600
OpCompleta(t) == {AmostraP(TanquesResina[1], t, 2, PesoEm(t)),
                  AmostraP(TanquesResina[1], t + 5, 1, PesoEm(t) - 10)}
OpAberta(t) == {AmostraP(TanquesResina[1], t, 2, PesoEm(t))}
ConteudoDe(t) == {{}, OpCompleta(t), OpAberta(t)}

\* two samples of a mixer under load, five minutes apart at 09:00
Carga == {AmostraM(Masseiras[1], MeiaNoite + 9 * 3600, 1),
          AmostraM(Masseiras[1], MeiaNoite + 9 * 3600 + LimiteSeg, 1)}

\* two samples of a mixer under load, one second more than five minutes apart
CargaEspacada == {AmostraM(Masseiras[1], MeiaNoite + 9 * 3600, 1),
                  AmostraM(Masseiras[1], MeiaNoite + 9 * 3600 + LimiteSeg + 1, 1)}

\* a mixer under load at 22:00 the day before and at 09:00
CargaDupla == Carga \cup {AmostraM(Masseiras[1], MeiaNoite - 2 * 3600, 1),
                          AmostraM(Masseiras[1], MeiaNoite - 2 * 3600 + LimiteSeg, 1)}

StoresOverview ==
    {UNION {c[t] : t \in Inicios8} \cup m :
        c \in [Inicios8 -> UNION {ConteudoDe(t) : t \in Inicios8} \cup {{}}],
        m \in {{}, Carga, CargaEspacada, CargaDupla}}

\* the period lists a client asks for
Pedidos == {<<>>, <<"hoje">>, <<"hoje", "7d">>, <<"ontem", "30d">>}

InitOverview ==
    /\ rows = <<>> /\ i = 1 /\ last_op = EmptyDict /\ operacao_aberta = EmptyDict
    /\ resultado = EmptyDict /\ det_pc = "off"
    /\ readings \in StoresOverview
    /\ dosagens = <<>>
    /\ meta = EmptyDict
    /\ ops_log = SemLog
    /\ late_write = FALSE
    /\ masseira_daily = EmptyDict
    /\ energy_log = SemRuns
    /\ integrated = EmptyDict
    /\ overview = EmptyDict
    /\ upserts = <<>>
    /\ bg = SemBg
    /\ conn = SemConn
    /\ poller = SemPoller
    /\ updater = SemUpdater
    /\ now = Agora
    /\ tz \in Fusos

\* GET of the overview of the periods ps
PedeOverview(ps) ==
    /\ ps \notin DOMAIN overview
    /\ overview' = Put(overview, ps, calcular_overview_multi(readings, ps, now, tz))
    /\ UNCHANGED <<detVars, readings, now, batchVars, upserts, bg, tz, conn, poller, updater>>

NextOverview == \E ps \in Pedidos : PedeOverview(ps)

SpecOverview == InitOverview /\ [][NextOverview]_vars

(***************************************************************************)
(* SpecUpsert: _upsert_masseira_daily_row on arbitrary incoming rows       *)
(***************************************************************************)
\* bound: upserts made
MaxUpserts == 3

\* incoming rows of the day under test: the additive columns absent or
\* present, a peak current, one timestamp for first_ts and last_ts
LinhaDe(day, a, c, t) ==
    [day |-> day, device |-> Masseiras[1],
     energia_kWh |-> a, horas_operacao |-> IF a = Null THEN Null ELSE a + 1,
     corrente_max |-> c, first_ts |-> t, last_ts |-> t,
     samples |-> IF a = Null THEN Null ELSE a + 2]
LinhasUpsert ==
    {LinhaDe(0, a, c, t) : a \in {Null, 2}, c \in {Null, 3, 7}, t \in {Null, 10, 20}}
        \cup {LinhaDe(1, 2, 3, DiaSeg + 30)}

InitUpsert ==
    /\ rows = <<>> /\ i = 1 /\ last_op = EmptyDict /\ operacao_aberta = EmptyDict
    /\ resultado = EmptyDict /\ det_pc = "off"
    /\ readings = {}
    /\ dosagens = <<>>
    /\ meta = EmptyDict
    /\ ops_log = SemLog
    /\ late_write = FALSE
    /\ masseira_daily = EmptyDict
    /\ energy_log = SemRuns
    /\ integrated = EmptyDict
    /\ overview = EmptyDict
    /\ upserts = <<>>
    /\ bg = SemBg
    /\ conn = SemConn
    /\ poller = SemPoller
    /\ updater = SemUpdater
    /\ now = Iso(0, 0)
    /\ tz = 0

\* one call of _upsert_masseira_daily_row
UpsertRow(row) ==
    /\ Len(upserts) < MaxUpserts
    /\ masseira_daily' = _upsert_masseira_daily_row(masseira_daily, row, now)
    /\ upserts' = Append(upserts, row)
    /\ UNCHANGED <<detVars, readings, dosagens, meta, ops_log, late_write,
                   energy_log, integrated, overview, bg, now, tz, conn, poller, updater>>

NextUpsert == \E row \in LinhasUpsert : UpsertRow(row)

SpecUpsert == InitUpsert /\ [][NextUpsert]_vars

(***************************************************************************)
(* SpecRetry: background_updater, whose jobs may raise                     *)
(***************************************************************************)
\* bounds: attempts that raise, masseira samples stored
MaxFalhas == 1
MaxPollsR == 2
\* bound: clock steps of one clip
MaxPassosR == 1
\* the kinds of sample polled: power 2 at 50 Hz, power 3 at 0 Hz
KindsR == {1, 3}

\* the watermark after an attempt that raised, written as if it had not
MutMetaAposFalha(mt, key, end_ts) == Put(mt, key, end_ts)
\* the watermark after an attempt that raised: the exception leaves the job
\* before its _set_meta_value
MetaAposFalha(mt, key, end_ts) == mt

\* the body of "for dev in DEVICES" raising after k upserts of the device
FalhaDevice(st, rd, dev, end_ts, k) ==
    LET start_ts == Get(st.meta, MetaKey(dev), Epoca0)
        rs == RollupRows(rd, dev, start_ts, end_ts)
    IN [md |-> UpsertRows(st.md, rs, k, end_ts),
        meta |-> MetaAposFalha(st.meta, MetaKey(dev), end_ts)]

\* the day rows of a device
LinhasDoDev(md, dev) == [x \in {y \in DOMAIN md : y[2] = dev} |-> md[x]]

InitRetry ==
    /\ rows = <<>> /\ i = 1 /\ last_op = EmptyDict /\ operacao_aberta = EmptyDict
    /\ resultado = EmptyDict /\ det_pc = "off"
    /\ readings = {}
    /\ dosagens = <<>>
    /\ meta = EmptyDict
    /\ ops_log = SemLog
    /\ late_write = FALSE
    /\ masseira_daily = EmptyDict
    /\ energy_log = SemRuns
    /\ integrated = EmptyDict
    /\ overview = EmptyDict
    /\ upserts = <<>>
    /\ bg = SemBg
    /\ conn = SemConn
    /\ poller = SemPoller
    /\ updater = SemUpdater
    /\ now = Iso(InicioEnergy, 0)
    /\ tz = 0

\* the clock moves on: within the second, then by one clip
TickRetry ==
    /\ now.f = 0 \/ now.s < InicioEnergy + LimiteSeg * MaxPassosR
    /\ now' = IF now.f = 0 THEN Iso(now.s, 1) ELSE Iso(now.s + LimiteSeg, 0)
    /\ UNCHANGED <<detVars, readings, meta, ledgerVars, energyVars, overview,
                   upserts, bg, tz, conn, poller, updater>>

\* save_to_sqlite of one poll cycle of Masseira_1
PollRetry(k) ==
    /\ Cardinality(readings) < MaxPollsR
    /\ PollMasseira(Masseiras[1], k)

\* try: update_dosagens_table() except: print; falha names where it raised
\* ("" nowhere, "read" in a query, "meta" in the write of the watermark)
BgDosagens(falha) ==
    LET start_ts == Get(meta, "last_ops_ts", Epoca0)
        end_ts == now
        ops_resina == OperacoesNaJanela(readings, start_ts, end_ts, "Resina", tz)
        ops_agua == OperacoesNaJanela(readings, start_ts, end_ts, "Agua", tz)
        res == _insert_dosagens(dosagens, ops_resina, "Resina")
        agu == IF res.err THEN res ELSE _insert_dosagens(res.tab, ops_agua, "Agua")
        raised == falha # "" \/ agu.err
    IN /\ bg.pc = "dosagens"
       /\ bg.ultimo # now
       /\ falha # "" => bg.falhas < MaxFalhas
       /\ dosagens' = IF falha = "read" THEN dosagens ELSE agu.tab
       /\ meta' = IF raised THEN MetaAposFalha(meta, "last_ops_ts", end_ts)
                  ELSE Put(meta, "last_ops_ts", end_ts)
       /\ bg' = [bg EXCEPT
                   !.pc = "masseira",
                   !.ultimo = now,
                   !.inicio = Put(@, "last_ops_ts", start_ts),
                   !.falhou = IF raised THEN Put(@, "last_ops_ts", start_ts)
                              ELSE Pop(@, "last_ops_ts"),
                   !.falhas = IF falha # "" THEN @ + 1 ELSE @,
                   !.retomou = @ \cup ({"last_ops_ts"} \cap DOMAIN bg.falhou)]
       /\ UNCHANGED <<detVars, readings, ops_log, late_write, energyVars, now,
                      overview, upserts, tz, conn, poller, updater>>

\* try: update_masseira_daily() except: print; the run that does not raise
BgMasseira ==
    LET end_ts == now
        run == RollupRun(masseira_daily, meta, readings, end_ts)
        keys == {MetaKey(Masseiras[n]) : n \in 1..Len(Masseiras)}
    IN /\ bg.pc = "masseira"
       /\ bg.ultimo # now
       /\ masseira_daily' = run.md
       /\ meta' = run.meta
       /\ bg' = [bg EXCEPT
                   !.pc = "dosagens",
                   !.ultimo = now,
                   !.inicio = [x \in (DOMAIN @) \cup keys |->
                                  IF x \in keys THEN Get(meta, x, Epoca0) ELSE @[x]],
                   !.falhou = [x \in (DOMAIN @) \ keys |-> @[x]],
                   !.md0 = EmptyDict,
                   !.parcial = 0,
                   !.retomou = @ \cup (keys \cap DOMAIN bg.falhou)]
       /\ UNCHANGED <<detVars, readings, dosagens, ops_log, late_write,
                      energy_log, integrated, now, overview, upserts, tz, conn, poller, updater>>

\* the run that raises in the step of device Masseiras[n], after k of the
\* device's day rows were upserted (k = 0: in the query; k = all: in the
\* write of the watermark)
BgMasseiraFalha(n, k) ==
    LET end_ts == now
        dev == Masseiras[n]
        key == MetaKey(dev)
        antes == {MetaKey(Masseiras[m]) : m \in 1..(n - 1)}
        st0 == IF n = 1 THEN [md |-> masseira_daily, meta |-> meta]
               ELSE RollupDevice([md |-> masseira_daily, meta |-> meta],
                                 readings, Masseiras[1], end_ts)
        rs == RollupRows(readings, dev, Get(st0.meta, key, Epoca0), end_ts)
        st1 == FalhaDevice(st0, readings, dev, end_ts, k)
        pendente == key \in DOMAIN bg.falhou
    IN /\ bg.pc = "masseira"
       /\ bg.ultimo # now
       /\ bg.falhas < MaxFalhas
       /\ k <= Len(rs)
       /\ masseira_daily' = st1.md
       /\ meta' = st1.meta
       /\ bg' = [bg EXCEPT
                   !.pc = "dosagens",
                   !.ultimo = now,
                   !.inicio = [x \in (DOMAIN @) \cup antes \cup {key} |->
                                  IF x \in antes \cup {key}
                                  THEN Get(meta, x, Epoca0) ELSE @[x]],
                   !.falhou = Put([x \in (DOMAIN @) \ antes |-> @[x]], key,
                                  Get(meta, key, Epoca0)),
                   !.md0 = IF pendente THEN @ ELSE st0.md,
                   !.parcial = IF pendente THEN @ + k ELSE k,
                   !.falhas = @ + 1,
                   !.retomou = @ \cup ((antes \cup {key}) \cap DOMAIN bg.falhou)]
       /\ UNCHANGED <<detVars, readings, dosagens, ops_log, late_write,
                      energy_log, integrated, now, overview, upserts, tz, conn, poller, updater>>

NextRetry ==
    \/ TickRetry
    \/ \E k \in KindsR : PollRetry(k)
    \/ \E falha \in {"", "read", "meta"} : BgDosagens(falha)
    \/ BgMasseira
    \/ \E n \in 1..Len(Masseiras) : \E k \in 0..2 : BgMasseiraFalha(n, k)

SpecRetry == InitRetry /\ [][NextRetry]_vars

(***************************************************************************)
(* SpecConn: the threads that write through GLOBAL_CONN under DB_LOCK      *)
(***************************************************************************)
\* bound: writes each thread begins
MaxCiclos == 2
\* the tags of one poll cycle: data_to_insert has one row per tag
NTags == 2

\* "with DB_LOCK" entered whatever the lock's state
MutPodeEntrar(lock) == TRUE
\* "with DB_LOCK": the thread enters when the lock is free
PodeEntrar(lock) == lock = ""

\* a row of readings: the poller, its poll cycle (one timestamp) and the tag;
\* the batch task's rows (dosagens, masseira_daily, meta) carry tag 0
Linha(t, c, tag) == [t |-> t, ciclo |-> c, tag |-> tag]

foraConn == <<detVars, storeVars, ledgerVars, energyVars, overview, upserts, bg, tz,
              poller, updater>>

InitConn ==
    /\ rows = <<>> /\ i = 1 /\ last_op = EmptyDict /\ operacao_aberta = EmptyDict
    /\ resultado = EmptyDict /\ det_pc = "off"
    /\ readings = {}
    /\ dosagens = <<>>
    /\ meta = EmptyDict
    /\ ops_log = SemLog
    /\ late_write = FALSE
    /\ masseira_daily = EmptyDict
    /\ energy_log = SemRuns
    /\ integrated = EmptyDict
    /\ overview = EmptyDict
    /\ upserts = <<>>
    /\ bg = SemBg
    /\ conn = SemConn
    /\ poller = SemPoller
    /\ updater = SemUpdater
    /\ now = Epoca0
    /\ tz = 0

\* a thread calls its writer (save_to_sqlite; _insert_dosagens,
\* _upsert_masseira_daily_row or _set_meta_value; cleanup_db) and reaches
\* "with DB_LOCK"
Chama(t) ==
    /\ conn.pc[t] = "idle"
    /\ conn.ciclo[t] < MaxCiclos
    /\ conn' = [conn EXCEPT !.pc[t] = "wait", !.ciclo[t] = @ + 1]
    /\ UNCHANGED foraConn

\* with DB_LOCK: __enter__
Entra(t) ==
    /\ conn.pc[t] = "wait"
    /\ PodeEntrar(conn.lock)
    /\ conn' = [conn EXCEPT !.lock = t, !.pc[t] = "exec", !.k = 0]
    /\ UNCHANGED foraConn

\* save_to_sqlite: executemany inserts the row of the next tag
ExecTag(t) ==
    /\ t \in Pollers
    /\ conn.pc[t] = "exec"
    /\ conn.k < NTags
    /\ conn' = [conn EXCEPT
                  !.pend = @ \cup {Linha(t, conn.ciclo[t], conn.k + 1)},
                  !.k = @ + 1,
                  !.pc[t] = IF conn.k + 1 = NTags THEN "commit" ELSE "exec"]
    /\ UNCHANGED foraConn

\* save_to_sqlite: executemany raises on the next tag; the exception leaves
\* "with DB_LOCK" with neither commit nor rollback
ExecFalha(t) ==
    /\ t \in Pollers
    /\ conn.pc[t] = "exec"
    /\ conn.k < NTags
    /\ conn.falhas < MaxFalhas
    /\ conn' = [conn EXCEPT !.lock = "", !.pc[t] = "idle", !.falhas = @ + 1]
    /\ UNCHANGED foraConn

\* the batch task's INSERT or upsert of one row
ExecBatch ==
    /\ conn.pc["bg"] = "exec"
    /\ conn' = [conn EXCEPT
                  !.pend = @ \cup {Linha("bg", conn.ciclo["bg"], 0)},
                  !.pc["bg"] = "commit"]
    /\ UNCHANGED foraConn

\* cleanup_db: DELETE FROM readings WHERE timestamp < cut_off, the cut
\* falling after the poll cycles up to corte
ExecCleanup(corte) ==
    LET velha(r) == r.t \in Pollers /\ r.ciclo <= corte
    IN /\ conn.pc["cl"] = "exec"
       /\ conn' = [conn EXCEPT
                     !.pend = {r \in @ : ~velha(r)},
                     !.del = @ \cup {r \in conn.disco : velha(r)},
                     !.pc["cl"] = "commit"]
       /\ UNCHANGED foraConn

\* conn.commit() and the end of "with DB_LOCK"
Commit(t) ==
    /\ conn.pc[t] = "commit"
    /\ conn' = [conn EXCEPT
                  !.disco = (@ \ conn.del) \cup conn.pend,
                  !.pend = {},
                  !.del = {},
                  !.lock = "",
                  !.pc[t] = "idle"]
    /\ UNCHANGED foraConn

NextConn ==
    \/ \E t \in Threads : Chama(t)
    \/ \E t \in Threads : Entra(t)
    \/ \E t \in Pollers : ExecTag(t)
    \/ \E t \in Pollers : ExecFalha(t)
    \/ ExecBatch
    \/ \E corte \in 0..MaxCiclos : ExecCleanup(corte)
    \/ \E t \in Threads : Commit(t)

SpecConn == InitConn /\ [][NextConn]_vars

(***************************************************************************)
(* SpecBatch: the pollers and the batch task, whose queries take no lock   *)
(***************************************************************************)
\* a query of the batch task that takes DB_LOCK
MutLockNaLeitura(lock) == "bg"
\* DB_LOCK across a query of the batch task (the detector's scan, the rollup
\* aggregation, _get_meta_value, the SELECT COUNT of _insert_dosagens): none
\* of them is inside "with DB_LOCK"
LockNaLeitura(lock) == lock

\* the batch task starts a query
BatchLe ==
    /\ conn.pc["bg"] = "idle"
    /\ conn' = [conn EXCEPT !.pc["bg"] = "read", !.lock = LockNaLeitura(@)]
    /\ UNCHANGED foraConn

\* the query returns its rows
BatchLeu ==
    /\ conn.pc["bg"] = "read"
    /\ conn' = [conn EXCEPT !.pc["bg"] = "idle"]
    /\ UNCHANGED foraConn

NextBatch ==
    \/ \E t \in Pollers \cup {"bg"} : Chama(t)
    \/ \E t \in Pollers \cup {"bg"} : Entra(t)
    \/ \E t \in Pollers : ExecTag(t)
    \/ ExecBatch
    \/ \E t \in Pollers \cup {"bg"} : Commit(t)
    \/ BatchLe
    \/ BatchLeu

\* Scheduling: a thread inside "with DB_LOCK" runs its statement and its
\* commit to the end (weak fairness); a thread waiting at DB_LOCK gets it
\* if it is free again and again (strong fairness: every holder leaves after
\* one write and then sleeps or reads before it asks again).
SpecBatch ==
    /\ InitConn /\ [][NextBatch]_vars
    /\ \A t \in Pollers : SF_vars(Entra(t)) /\ WF_vars(ExecTag(t)) /\ WF_vars(Commit(t))
    /\ WF_vars(ExecBatch) /\ WF_vars(Commit("bg"))

(***************************************************************************)
(* SpecLoops: the loops of poll_device and background_updater              *)
(***************************************************************************)
\* bounds: cycles each loop begins, poll interval in seconds
MaxVoltas == 2
POLL_INTERVAL == 5

\* the values a tag reads: None or a value
Valores == {Null, 1}

\* a loop without its except clause: the exception ends the thread
MutAposExcecao(pc) == "dead"
\* "except Exception as e: print(...)": the loop goes on at the statement
\* after the try
AposExcecao(pc) == pc

\* a job started without waiting for it
MutAposChamada(dentro, depois) == depois
\* a call: the thread is inside the job until it returns or raises
AposChamada(dentro, depois) == dentro

\* a save that writes whatever was read
MutTodosNulos(data) == FALSE
\* all(v is None for v in all_data.values())
TodosNulos(data) == \A t \in DOMAIN data : data[t] = Null

\* data_to_insert of save_to_sqlite: one row per tag, one timestamp
DataToInsert(ts, data) == {<<ts, t, data[t]>> : t \in DOMAIN data}

foraLoops == <<detVars, readings, meta, ledgerVars, energyVars, overview, upserts,
               bg, conn, tz>>

InitLoops ==
    /\ rows = <<>> /\ i = 1 /\ last_op = EmptyDict /\ operacao_aberta = EmptyDict
    /\ resultado = EmptyDict /\ det_pc = "off"
    /\ readings = {}
    /\ dosagens = <<>>
    /\ meta = EmptyDict
    /\ ops_log = SemLog
    /\ late_write = FALSE
    /\ masseira_daily = EmptyDict
    /\ energy_log = SemRuns
    /\ integrated = EmptyDict
    /\ overview = EmptyDict
    /\ upserts = <<>>
    /\ bg = SemBg
    /\ conn = SemConn
    /\ poller = SemPoller
    /\ updater = SemUpdater
    /\ now = Iso(100, 0)
    /\ tz = 0

\* poll_device, top of "while True": inside the hours of collection the
\* cycle goes on to the reads, outside them it sleeps and continues
PollTop(coleta) ==
    /\ poller.pc = "top"
    /\ poller.ciclo < MaxVoltas
    /\ poller' = [poller EXCEPT
                    !.pc = IF coleta THEN "read" ELSE "sleep",
                    !.ciclo = @ + 1,
                    !.erro = FALSE,
                    !.salvas = {}]
    /\ UNCHANGED <<updater, now, foraLoops>>

\* read_device_registers and read_device_coils: all_data
PollRead(data) ==
    /\ poller.pc = "read"
    /\ poller' = [poller EXCEPT !.pc = "save", !.data = data]
    /\ UNCHANGED <<updater, now, foraLoops>>

\* "if not all(v is None ...)": save_to_csv and save_to_sqlite, or neither
PollSave ==
    /\ poller.pc = "save"
    /\ LET novas == IF TodosNulos(poller.data) THEN {}
                    ELSE DataToInsert(now.s, poller.data)
       IN poller' = [poller EXCEPT
                       !.pc = "sleep",
                       !.linhas = @ \cup novas,
                       !.salvas = novas]
    /\ UNCHANGED <<updater, now, foraLoops>>

\* a read or a save of the cycle raises: "except Exception as e"
PollRaise ==
    /\ poller.pc \in {"read", "save"}
    /\ poller' = [poller EXCEPT !.pc = AposExcecao("sleep"), !.erro = TRUE]
    /\ UNCHANGED <<updater, now, foraLoops>>

\* time.sleep(config.POLL_INTERVAL)
PollSleep ==
    /\ poller.pc = "sleep"
    /\ poller' = [poller EXCEPT !.pc = "top"]
    /\ now' = Iso(now.s + POLL_INTERVAL, 0)
    /\ UNCHANGED <<updater, foraLoops>>

\* background_updater: "try: update_dosagens_table()", the call
UpdDosagens ==
    /\ updater.pc = "try_dosagens"
    /\ updater.ciclo < MaxVoltas
    /\ updater' = [updater EXCEPT
                     !.pc = AposChamada("in_dosagens", "sleep1"),
                     !.rodando = @ \cup {"dosagens"},
                     !.feitos = {},
                     !.erro = {},
                     !.ciclo = @ + 1]
    /\ UNCHANGED <<poller, now, foraLoops>>

\* background_updater: "try: update_masseira_daily()", the call
UpdMasseira ==
    /\ updater.pc = "try_masseira"
    /\ updater' = [updater EXCEPT
                     !.pc = AposChamada("in_masseira", "sleep3600"),
                     !.rodando = @ \cup {"masseira"}]
    /\ UNCHANGED <<poller, now, foraLoops>>

\* a running job returns (ok) or raises into its except clause
UpdFim(job, ok) ==
    LET dentro == IF job = "dosagens" THEN "in_dosagens" ELSE "in_masseira"
        depois == IF job = "dosagens" THEN "sleep1" ELSE "sleep3600"
    IN /\ job \in updater.rodando
       /\ updater' = [updater EXCEPT
                        !.pc = IF @ # dentro THEN @
                               ELSE IF ok THEN depois ELSE AposExcecao(depois),
                        !.rodando = @ \ {job},
                        !.feitos = @ \cup {job},
                        !.erro = IF ok THEN @ ELSE @ \cup {job}]
       /\ UNCHANGED <<poller, now, foraLoops>>

\* time.sleep(1) and time.sleep(3600)
UpdSleep ==
    /\ updater.pc \in {"sleep1", "sleep3600"}
    /\ updater' = [updater EXCEPT
                     !.pc = IF @ = "sleep1" THEN "try_masseira" ELSE "try_dosagens"]
    /\ UNCHANGED <<poller, now, foraLoops>>

NextLoops ==
    \/ \E coleta \in BOOLEAN : PollTop(coleta)
    \/ \E data \in [Tags -> Valores] : PollRead(data)
    \/ PollSave
    \/ PollRaise
    \/ PollSleep
    \/ UpdDosagens
    \/ UpdMasseira
    \/ \E job \in {"dosagens", "masseira"} : \E ok \in BOOLEAN : UpdFim(job, ok)
    \/ UpdSleep

\* Scheduling: both threads keep running (the process is not shut down)
SpecLoops ==
    /\ InitLoops /\ [][NextLoops]_vars
    /\ WF_vars(PollSave) /\ WF_vars(PollSleep)
    /\ WF_vars(\E data \in [Tags -> Valores] : PollRead(data))
    /\ WF_vars(UpdMasseira) /\ WF_vars(UpdSleep)
    /\ WF_vars(\E job \in {"dosagens", "masseira"} : \E ok \in BOOLEAN : UpdFim(job, ok))

(***************************************************************************)
(* SpecMalformed: the detector over rows that carry a non-numeric value    *)
(***************************************************************************)
\* a stored value that is a text and no number ('abc')
Mal == 0 - 2

\* bound: rows fetched
MaxRowsMal == 4

\* the signal combinations: 1 idle, 2 in progress and enabled (valve 1),
\* 5 a non-numeric operation-in-progress, 6 idle with a non-numeric weight
KindsMal == {1, 2, 5, 6}
AmostraMal(dev, ts, k) ==
    IF k = 5 THEN [Amostra(dev, ts, 1) EXCEPT !.op_and = Mal]
    ELSE IF k = 6 THEN [Amostra(dev, ts, 1) EXCEPT !.peso = Mal]
    ELSE Amostra(dev, ts, k)

\* rows of one device polled every 10 s
RowsOfMal(dev, ks) == [n \in 1..Len(ks) |-> AmostraMal(dev, 100 + n * JanelaSeg, ks[n])]

\* two tanks, up to MaxRowsMal polls in all, ORDER BY device, ts
InputsMal ==
    UNION {{RowsOfMal(TanquesResina[1], SubSeq(ks, 1, n1))
              \o RowsOfMal(TanquesResina[2], SubSeq(ks, n1 + 1, Len(ks))) :
              n1 \in 1..(Len(ks) - 1)} :
           ks \in KindSeqs(KindsMal, 2, MaxRowsMal)}

\* the row the lookahead of a fall at row r reads the weight of, or 0
LinhaDoAlvo(base, r) ==
    LET de == PosicaoAtual(base, r.ts, r.dev) + 1
        depois == {j \in de..Len(base) :
                      /\ \A m \in de..j : base[m].dev = r.dev
                      /\ base[j].ts >= r.ts + JanelaSeg}
    IN IF depois = {} THEN 0 ELSE Min(depois)

\* whether the iteration over row r raises ValueError: int() of the signals
\* on every row, float() of the weight on a rise, while in progress, and
\* on the row the lookahead settles on
DetRaises(st, r, base) ==
    LET prev == Get(st.last_op, r.dev, 0)
        sobe == BordaSubida(prev, r.op_and, r.d_sel, r.b_liga)
        aberta == sobe \/ r.dev \in DOMAIN st.operacao_aberta
        alvo == LinhaDoAlvo(base, r)
    IN \/ Mal \in {r.op_and, r.d_sel, r.b_liga, r.v1, r.v2}
       \/ sobe /\ Mal \in {r.qtd_solic, r.peso}
       \/ aberta /\ r.op_and = 1 /\ r.peso = Mal
       \/ BordaDescida(prev, r.op_and) /\ aberta /\ alvo # 0 /\ base[alvo].peso = Mal

InitMalformed ==
    /\ rows \in InputsMal
    /\ i = 1
    /\ last_op = EmptyDict
    /\ operacao_aberta = EmptyDict
    /\ resultado = EmptyDict
    /\ det_pc = "scan"
    /\ tz = 0
    /\ readings = {}
    /\ dosagens = <<>>
    /\ meta = EmptyDict
    /\ ops_log = SemLog
    /\ late_write = FALSE
    /\ masseira_daily = EmptyDict
    /\ energy_log = SemRuns
    /\ integrated = EmptyDict
    /\ overview = EmptyDict
    /\ upserts = <<>>
    /\ bg = SemBg
    /\ conn = SemConn
    /\ poller = SemPoller
    /\ updater = SemUpdater
    /\ now = [s |-> 0, f |-> 0]

\* one iteration of "for ts, dev, ... in rows" that converts its values
ScanRowOk ==
    /\ i <= Len(rows)
    /\ ~DetRaises(DetState, rows[i], rows)
    /\ ScanRow

\* the iteration in which int() or float() raises: the function is left
\* with no return value
ScanRowRaise ==
    /\ det_pc = "scan"
    /\ i <= Len(rows)
    /\ DetRaises(DetState, rows[i], rows)
    /\ det_pc' = "raised"
    /\ UNCHANGED <<rows, i, last_op, operacao_aberta, resultado, tz, storeVars,
                   ledgerVars, energyVars, overview, upserts, bg, conn, poller, updater>>

NextMalformed == ScanRowOk \/ ScanRowRaise \/ FechaFimPeriodo

SpecMalformed == InitMalformed /\ [][NextMalformed]_vars

(***************************************************************************)
(* SpecFrame: the ledger, the rollup and cleanup_db over one store         *)
(***************************************************************************)
\* config.CLEANUP_DAYS, in days
CLEANUP_DAYS == 30
CleanupSeg == CLEANUP_DAYS * DiaSeg

\* bound: samples stored at any time
MaxLeituras == 3

\* DELETE FROM readings WHERE timestamp < cut_off: the rows that stay
MutDeleteAntigas(rd, cut_off) == {}
DeleteAntigas(rd, cut_off) == {r \in rd : TsLE(cut_off, Iso(r.ts, 0))}

InitFrame ==
    /\ rows = <<>> /\ i = 1 /\ last_op = EmptyDict /\ operacao_aberta = EmptyDict
    /\ resultado = EmptyDict /\ det_pc = "off"
    /\ readings = {}
    /\ dosagens = <<>>
    /\ meta = EmptyDict
    /\ ops_log = SemLog
    /\ late_write = FALSE
    /\ masseira_daily = EmptyDict
    /\ energy_log = SemRuns
    /\ integrated = EmptyDict
    /\ overview = EmptyDict
    /\ upserts = <<>>
    /\ bg = SemBg
    /\ conn = SemConn
    /\ poller = SemPoller
    /\ updater = SemUpdater
    /\ now = Iso(100, 0)
    /\ tz = 0

\* the clock moves on by a poll interval, once before and once after it
\* moves on by the retention time
TickFrame ==
    /\ \E g \in {POLL_INTERVAL, CleanupSeg} :
          /\ IF g = POLL_INTERVAL THEN (now.s - 100) % CleanupSeg < POLL_INTERVAL
                                  ELSE now.s < 100 + CleanupSeg
          /\ now' = Iso(now.s + g, 0)
    /\ UNCHANGED <<detVars, readings, meta, ledgerVars, energyVars, overview, upserts, bg, tz, conn, poller, updater>>

\* save_to_sqlite of one poll cycle of a tank: an operation is in progress
\* at every other poll
PollTankFrame ==
    LET k == IF now.s % 10 = 0 THEN 2 ELSE 1 IN
    /\ Cardinality(readings) < MaxLeituras
    /\ \A r \in readings : ~(r.dev = "Tanque_1_Resina" /\ r.ts = now.s)
    /\ readings' = readings \cup {Amostra("Tanque_1_Resina", now.s, k)}
    /\ UNCHANGED <<detVars, ledgerVars, meta, energyVars, now, overview, upserts, bg, tz, conn, poller, updater>>

\* save_to_sqlite of one poll cycle of a masseira
PollMasseiraFrame ==
    /\ Cardinality(readings) < MaxLeituras
    /\ \A r \in readings : ~(r.dev = Masseiras[1] /\ r.ts = now.s)
    /\ readings' = readings \cup {AmostraM(Masseiras[1], now.s, 1)}
    /\ UNCHANGED <<detVars, ledgerVars, meta, energyVars, now, overview, upserts, bg, tz, conn, poller, updater>>

\* cleanup_db, one whole call
CleanupDb ==
    LET cut_off == Iso(now.s - CleanupSeg, now.f)
    IN /\ readings' = DeleteAntigas(readings, cut_off)
       /\ UNCHANGED <<detVars, ledgerVars, meta, energyVars, now, overview, upserts, bg, tz, conn, poller, updater>>

NextFrame ==
    \/ TickFrame
    \/ PollTankFrame
    \/ PollMasseiraFrame
    \/ UpdateDosagens
    \/ UpdateMasseiraDaily
    \/ CleanupDb

SpecFrame == InitFrame /\ [][NextFrame]_vars

(***************************************************************************)
(* SpecGlobal: the writer threads' calls of get_global_conn                *)
(***************************************************************************)
\* bound: calls of get_global_conn per thread
MaxChamadas == 2

\* the threads __main__ starts that write through GLOBAL_CONN
Escritores == {"p1", "p2", "bg"}

\* the module after import: global is GLOBAL_CONN (None), criadas the
\* connections sqlite3.connect has made, numbered in order, pc each thread's
\* position in get_global_conn, chamadas the calls each thread has begun,
\* recebidas the connections the calls have returned
SemGlobal == [global |-> Null, criadas |-> 0,
              pc |-> [t \in Escritores |-> "idle"],
              chamadas |-> [t \in Escritores |-> 0],
              recebidas |-> {}]

InitGlobal ==
    /\ rows = <<>> /\ i = 1 /\ last_op = EmptyDict /\ operacao_aberta = EmptyDict
    /\ resultado = EmptyDict /\ det_pc = "off"
    /\ readings = {}
    /\ dosagens = <<>>
    /\ meta = EmptyDict
    /\ ops_log = SemLog
    /\ late_write = FALSE
    /\ masseira_daily = EmptyDict
    /\ energy_log = SemRuns
    /\ integrated = EmptyDict
    /\ overview = EmptyDict
    /\ upserts = <<>>
    /\ bg = SemBg
    /\ conn = SemGlobal
    /\ poller = SemPoller
    /\ updater = SemUpdater
    /\ now = Iso(100, 0)
    /\ tz = 0

\* "if GLOBAL_CONN is None:" read by thread t; no lock is held
TestaGlobal(t) ==
    /\ conn.pc[t] = "idle"
    /\ conn.chamadas[t] < MaxChamadas
    /\ conn' = [conn EXCEPT !.pc[t] = IF conn.global = Null THEN "connect" ELSE "return",
                            !.chamadas[t] = @ + 1]
    /\ UNCHANGED foraConn

\* "GLOBAL_CONN = sqlite3.connect(...)" and the two PRAGMAs
ConectaGlobal(t) ==
    /\ conn.pc[t] = "connect"
    /\ conn' = [conn EXCEPT !.criadas = @ + 1, !.global = conn.criadas + 1,
                            !.pc[t] = "return"]
    /\ UNCHANGED foraConn

\* "return GLOBAL_CONN": the value of the global at that moment
RetornaGlobal(t) ==
    /\ conn.pc[t] = "return"
    /\ conn' = [conn EXCEPT !.recebidas = @ \cup {conn.global}, !.pc[t] = "idle"]
    /\ UNCHANGED foraConn

NextGlobal ==
    \/ \E t \in Escritores : TestaGlobal(t)
    \/ \E t \in Escritores : ConectaGlobal(t)
    \/ \E t \in Escritores : RetornaGlobal(t)

SpecGlobal == InitGlobal /\ [][NextGlobal]_vars

(***************************************************************************)
(* Claims on the detector (SpecDetect)                                     *)
(***************************************************************************)
\* operation-in-progress value of the previous row of the same device
PrevOp(k) == IF k > 1 /\ rows[k - 1].dev = rows[k].dev THEN rows[k - 1].op_and ELSE 0

DevsOf(rs) == {rs[k].dev : k \in 1..Len(rs)}

\* every operation emitted so far for dev, whatever its destination
Emitidas(res, dev) ==
    LET cur == Get(res, dev, ResultadoVazio)
    IN UNION {{cur[d][n] : n \in 1..Len(cur[d])} : d \in Destinos}

NumEmitidas(res, dev) ==
    LET cur == Get(res, dev, ResultadoVazio)
    IN Len(cur["Masseira_1"]) + Len(cur["Masseira_2"])

\* start timestamps (as row timestamps) of dev's operations, emitted or open
Inicios(dev) ==
    {o.horario - tz : o \in Emitidas(resultado, dev)}
        \cup (IF dev \in DOMAIN operacao_aberta
              THEN {operacao_aberta[dev].inicio_ts - tz} ELSE {})

\* C3: at every point of the scan, an open Operation implies the device's
\* last operation-in-progress value is 1; a row never opens an Operation
\* for a device that still has one open; and between the starts of any two
\* Operations of one device the in-progress signal fell (they never overlap).
C3_OpenImpliesActive ==
    \A dev \in DOMAIN operacao_aberta : Get(last_op, dev, 0) = 1

C3_StartsSeparated ==
    \A dev \in DevsOf(rows) :
        /\ NumEmitidas(resultado, dev)
             + (IF dev \in DOMAIN operacao_aberta THEN 1 ELSE 0)
           = Cardinality(Inicios(dev))
        /\ \A a, b \in Inicios(dev) :
             a < b => \E k \in 1..Len(rows) :
                        /\ rows[k].dev = dev /\ rows[k].op_and = 0
                        /\ a < rows[k].ts /\ rows[k].ts < b

C3_OpensOnlyWhenClosed ==
    \A dev \in DOMAIN operacao_aberta' :
        dev \in DOMAIN operacao_aberta
            => operacao_aberta'[dev].inicio_ts = operacao_aberta[dev].inicio_ts

C3_NoOverlap ==
    /\ [](C3_OpenImpliesActive /\ C3_StartsSeparated)
    /\ [][C3_OpensOnlyWhenClosed]_vars

\* a device with an emitted Operation and a later one open
C3_Witness ==
    \E dev \in DOMAIN operacao_aberta :
        /\ NumEmitidas(resultado, dev) > 0
        /\ det_pc = "scan"

\* C4's input: one device, in-progress 0,1,1,1,0 with both enabling signals 1
\* and valve 1 only at the rise, then any number of idle rows
C4_Scenario ==
    /\ Len(rows) >= 5
    /\ \A k \in 1..Len(rows) : rows[k].dev = rows[1].dev
    /\ \A k \in 1..Len(rows) :
         IF k \in {2, 3, 4}
         THEN rows[k].op_and = 1 /\ rows[k].d_sel = 1 /\ rows[k].b_liga = 1
              /\ rows[k].v1 = 1 /\ rows[k].v2 = 0
         ELSE rows[k].op_and = 0

\* rows after the falling row 5 with a timestamp of at least t
C4_LaterFrom(t) == {k \in 6..Len(rows) : rows[k].ts >= t}

C4_Emitted(pesoFim) ==
    LET cur == Get(resultado, rows[1].dev, ResultadoVazio)
    IN /\ DOMAIN resultado = {rows[1].dev}
       /\ cur["Masseira_2"] = <<>>
       /\ Len(cur["Masseira_1"]) = 1
       /\ cur["Masseira_1"][1].horario = fromtimestamp(rows[2].ts, tz)
       /\ cur["Masseira_1"][1].peso_inicio = rows[2].peso
       /\ cur["Masseira_1"][1].peso_fim = pesoFim

\* C4 (as amended): on that input the detector emits exactly one Operation,
\* to Masseira_1, starting at the rising row with its weight; its end weight
\* is the weight of the first row at/after the FALLING row's timestamp + 10 s
\* when the scanned rows hold one, else the weight of the last row with
\* operation-in-progress = 1.
C4_EdgeCorrectness ==
    (det_pc = "done" /\ C4_Scenario) =>
        LET later == C4_LaterFrom(rows[5].ts + JanelaSeg)
        IN C4_Emitted(IF later = {} THEN rows[4].peso ELSE rows[Min(later)].peso)

\* C4 as stated: the lookahead is measured from the Operation's start
C4_Original ==
    (det_pc = "done" /\ C4_Scenario) =>
        LET later == C4_LaterFrom(rows[2].ts + JanelaSeg)
        IN C4_Emitted(IF later = {} THEN rows[4].peso ELSE rows[Min(later)].peso)

\* the scenario ran to its end with a row inside the 10 s after the fall and
\* a row beyond them
C4_Witness ==
    /\ det_pc = "done" /\ C4_Scenario
    /\ C4_LaterFrom(rows[5].ts + JanelaSeg) # {}
    /\ \E k \in 6..Len(rows) : rows[k].ts < rows[5].ts + JanelaSeg

\* the next row is a falling edge of a device with no open Operation
C5_OrphanNext ==
    /\ det_pc = "scan" /\ i <= Len(rows)
    /\ rows[i].op_and = 0 /\ Get(last_op, rows[i].dev, 0) = 1
    /\ rows[i].dev \notin DOMAIN operacao_aberta

\* rows that are a rise with both enabling signals 1
C5_QualifyingRises(dev) ==
    {k \in 1..Len(rows) :
        /\ rows[k].dev = dev /\ rows[k].op_and = 1 /\ PrevOp(k) = 0
        /\ rows[k].d_sel = 1 /\ rows[k].b_liga = 1}

\* C5: a falling edge met with no open Operation changes nothing but the
\* device's last value (no Operation is emitted or opened), and the run's
\* result holds, per device, exactly one Operation per qualifying rise:
\* orphan edges add none and take none away, on that device or another.
C5_OrphanEdge ==
    /\ [][C5_OrphanNext =>
            /\ resultado' = resultado
            /\ operacao_aberta' = operacao_aberta
            /\ last_op' = Put(last_op, rows[i].dev, 0)]_vars
    /\ [](det_pc = "done" =>
            \A dev \in DevsOf(rows) :
                NumEmitidas(resultado, dev) = Cardinality(C5_QualifyingRises(dev)))

\* a run that met an orphan edge and emitted an Operation that starts after
\* it on the same device, and one on another device
C5_Witness ==
    /\ det_pc = "done"
    /\ \E k \in 2..Len(rows) :
         /\ rows[k].dev = rows[k - 1].dev
         /\ rows[k].op_and = 0 /\ rows[k - 1].op_and = 1 /\ rows[k - 1].d_sel = 0
         /\ PrevOp(k - 1) = 0
         /\ \E o \in Emitidas(resultado, rows[k].dev) : o.horario - tz > rows[k].ts

\* rows k..j are one pulse: the same device with operation-in-progress at 1
C30_Pulso(k, j) ==
    j >= k /\ \A n \in k..j : rows[n].dev = rows[k].dev /\ rows[n].op_and = 1

\* the step opens an Operation for dev
C30_Abre(dev) ==
    /\ dev \in DOMAIN operacao_aberta'
    /\ dev \in DOMAIN operacao_aberta =>
          operacao_aberta'[dev].inicio_ts # operacao_aberta[dev].inicio_ts

C31_DestinationResolution ==
    [][\A dev \in DevsOf(rows) :
         /\ C30_Abre(dev) =>
                operacao_aberta'[dev].destino =
                    IF rows[i].v1 = 1 /\ rows[i].v2 = 0 THEN "Masseira_1" ELSE "Masseira_2"
         /\ (dev \in DOMAIN operacao_aberta /\ dev \in DOMAIN operacao_aberta'
               /\ ~C30_Abre(dev)) =>
                operacao_aberta'[dev].destino = operacao_aberta[dev].destino]_vars

\* the last row of dev with operation-in-progress at 1
C32_UltimaAtiva(dev) ==
    Max({k \in 1..Len(rows) : rows[k].dev = dev /\ rows[k].op_and = 1})

\* C32: at the end of the rows every Operation still open is appended once to
\* its device's list of its destination, with the weight of the last row on
\* which it was active as its end weight; nothing else is appended, and after
\* the return no Operation is open.
C32_ForceClose ==
    /\ [][(det_pc = "scan" /\ det_pc' = "done") =>
            /\ operacao_aberta' = EmptyDict
            /\ \A dev \in DevsOf(rows) :
                  LET antes == Get(resultado, dev, ResultadoVazio)
                      depois == Get(resultado', dev, ResultadoVazio)
                  IN IF dev \in DOMAIN operacao_aberta
                     THEN LET o == operacao_aberta[dev]
                          IN /\ depois[o.destino] =
                                  Append(antes[o.destino],
                                         [horario |-> o.inicio_ts,
                                          qnt_solicitada |-> o.qtd_solic_desc,
                                          peso_inicio |-> o.peso_inicio,
                                          peso_fim |-> rows[C32_UltimaAtiva(dev)].peso])
                             /\ \A d \in Destinos \ {o.destino} : depois[d] = antes[d]
                     ELSE depois = antes]_vars
    /\ [](det_pc = "done" => operacao_aberta = EmptyDict)

\* the detector returned an Operation that was still open at the last row of
\* its device, two rows or more after its rise
C32_Witness ==
    /\ det_pc = "done"
    /\ \E dev \in DevsOf(rows) :
          LET k == Max({n \in 1..Len(rows) : rows[n].dev = dev})
          IN /\ rows[k].op_and = 1
             /\ \E o \in Emitidas(resultado, dev) :
                   /\ o.peso_fim = rows[k].peso
                   /\ o.horario - tz < rows[k].ts

\* the next row is a falling edge of a device with an open Operation
C15_Fall ==
    /\ det_pc = "scan" /\ i <= Len(rows)
    /\ rows[i].op_and = 0 /\ Get(last_op, rows[i].dev, 0) = 1
    /\ rows[i].dev \in DOMAIN operacao_aberta

\* rows of the same device after row k, at least 10 s after it
C15_Later(k) ==
    {j \in (k + 1)..Len(rows) :
        rows[j].dev = rows[k].dev /\ rows[j].ts >= rows[k].ts + JanelaSeg}

\* rows of the same device before row k with operation-in-progress = 1
C15_Active(k) ==
    {j \in 1..(k - 1) : rows[j].dev = rows[k].dev /\ rows[j].op_and = 1}

\* the end weight the fall at row k settles on
C15_PesoFim(k) ==
    IF C15_Later(k) # {} THEN rows[Min(C15_Later(k))].peso
    ELSE rows[Max(C15_Active(k))].peso

\* C15: when operation-in-progress falls 1 -> 0 at row i on a device with an
\* open Operation, that very step closes the Operation and appends it to
\* its destination's list; its end weight is the weight of the first later
\* row of the device with timestamp >= t + 10 s when the scanned rows hold
\* one, and otherwise the last weight seen while the operation was active.
C15_SettlementLookahead ==
    [][C15_Fall =>
        LET dev == rows[i].dev
            aberta == operacao_aberta[dev]
            antes == Get(resultado, dev, ResultadoVazio)
            fechada == [Registro(aberta) EXCEPT !.peso_fim = C15_PesoFim(i)]
        IN /\ dev \notin DOMAIN operacao_aberta'
           /\ dev \in DOMAIN resultado'
           /\ resultado'[dev] =
                [antes EXCEPT ![aberta.destino] = Append(@, fechada)]
           /\ \A o \in DOMAIN resultado \ {dev} : resultado'[o] = resultado[o]
           /\ DOMAIN resultado' = DOMAIN resultado \cup {dev}]_vars

\* the row just scanned was such a fall, with a row of the device inside the
\* 10 s after it and a row beyond them whose weight the closed Operation took
C15_Witness ==
    /\ det_pc = "scan" /\ i > 2 /\ i - 1 <= Len(rows)
    /\ rows[i - 1].op_and = 0
    /\ rows[i - 2].dev = rows[i - 1].dev /\ rows[i - 2].op_and = 1
    /\ C15_Later(i - 1) # {}
    /\ \E j \in i..Len(rows) :
          rows[j].dev = rows[i - 1].dev /\ rows[j].ts < rows[i - 1].ts + JanelaSeg
    /\ rows[i - 1].dev \in DOMAIN resultado
    /\ rows[i - 1].dev \notin DOMAIN operacao_aberta
    /\ \E d \in Destinos :
          LET l == resultado[rows[i - 1].dev][d]
          IN /\ l # <<>>
             /\ l[Len(l)].peso_fim = rows[Min(C15_Later(i - 1))].peso
             /\ l[Len(l)].peso_fim # rows[i - 2].peso

(***************************************************************************)
(* Claims on the ledger (SpecLedger)                                       *)
(***************************************************************************)
LinhasDe(tab) == {tab[n] : n \in 1..Len(tab)}

ChaveUnica(row) == <<row.device, row.timestamp_start, row.tipo, row.destino>>

\* the rows one detection over [Epoca0, end_iso] gives the ledger
LedgerDe(rd, end_iso, offset) ==
    UNION {LET lista == ListaOps(OperacoesNaJanela(rd, Epoca0, end_iso, tipo, offset), 1)
           IN {LinhaDosagem(lista[n], tipo) : n \in 1..Len(lista)}
           : tipo \in {"Resina", "Agua"}}

\* the last run resumed from a watermark and saw every reading stored so
\* far, none of them written below a watermark
C1_TwoRunsCoverW ==
    /\ ops_log.start_ts # Epoca0
    /\ ~ops_log.err
    /\ Cardinality(readings) = ops_log.seen
    /\ ~late_write

C36_Marca(dev) == IF TipoDe(dev) = "Outro" THEN MetaKey(dev) ELSE "last_ops_ts"

\* C36: no sample is skipped by the watermark: whenever save_to_sqlite
\* commits a row, the row's timestamp is not below the watermark already set
\* for its device, so that the row falls inside the window of a later run.
C36_NoSampleSkipped ==
    [][\A r \in readings' \ readings :
          C36_Marca(r.dev) \in DOMAIN meta =>
              TsLE(meta[C36_Marca(r.dev)], Iso(r.ts, 0))]_vars

\* two samples of a device belong to one physical operation: both report an
\* operation in progress, and so does every sample of the device between them
C35_MesmaOperacao(a, b) ==
    /\ a.dev = b.dev /\ a.op_and = 1 /\ b.op_and = 1
    /\ \A r \in readings :
          (r.dev = a.dev /\ a.ts <= r.ts /\ r.ts <= b.ts) => r.op_and = 1

LeiturasDe(dev) == {r \in readings : r.dev = dev}

\* the pairs of consecutive samples of a device in the stored history
Consecutivas(dev) ==
    {p \in LeiturasDe(dev) \X LeiturasDe(dev) :
        /\ p[1].ts < p[2].ts
        /\ ~\E c \in LeiturasDe(dev) : p[1].ts < c.ts /\ c.ts < p[2].ts}

\* the last run of the device that found rows saw every sample stored so
\* far, and no sample was written below a watermark
TudoVisto(dev) ==
    /\ energy_log.dev[dev].runs >= 1
    /\ energy_log.dev[dev].seen = Cardinality(LeiturasDe(dev))
    /\ ~late_write

\* what the claim lets a pair of consecutive samples contribute, in kW*s
\* and in seconds
C6_Energia(p) ==
    IF p[2].ts - p[1].ts > 300 THEN 0
    ELSE IF p[1].power # Null THEN p[1].power * (p[2].ts - p[1].ts) ELSE 0
C6_Horas(p) ==
    IF p[2].ts - p[1].ts > 300 THEN 0
    ELSE IF p[1].freq # Null /\ p[1].freq > 0 THEN p[2].ts - p[1].ts ELSE 0
C6_ParesDoDia(dev, day) == {p \in Consecutivas(dev) : Dia(p[2].ts) = day}

\* C6: after one run over all the samples of a device, each day's energy and
\* hours are the sums over the pairs of consecutive samples ending that day,
\* where a pair more than 5 minutes apart counts 0 for both whatever its
\* power and frequency, and a pair at most 5 minutes apart counts
\* previousPower * dt when the previous power is known and dt when the
\* previous frequency is above 0.
C6_GapClipping ==
    \A dev \in {Masseiras[1], Masseiras[2]} :
        (TudoVisto(dev) /\ energy_log.dev[dev].runs = 1) =>
            \A day \in {Dia(r.ts) : r \in LeiturasDe(dev)} :
                /\ <<day, dev>> \in DOMAIN masseira_daily
                /\ masseira_daily[<<day, dev>>].energia_kWh =
                     Round6(SomaFn([p \in C6_ParesDoDia(dev, day) |-> C6_Energia(p)]))
                /\ masseira_daily[<<day, dev>>].horas_operacao =
                     Round6(SomaFn([p \in C6_ParesDoDia(dev, day) |-> C6_Horas(p)]))

\* one run saw a pair exactly 5 minutes apart, which counted, and a pair one
\* second further apart under power and turning at both ends, which did not
C6_Witness ==
    LET dev == Masseiras[1]
    IN /\ TudoVisto(dev) /\ energy_log.dev[dev].runs = 1
       /\ \E p \in Consecutivas(dev) :
             /\ p[2].ts - p[1].ts = 301
             /\ p[1].power = 2 /\ p[2].power = 2 /\ p[1].freq > 0 /\ p[2].freq > 0
             /\ Dia(p[2].ts) = 1
       /\ \E p \in Consecutivas(dev) :
             /\ p[2].ts - p[1].ts = 300 /\ p[1].power = 2 /\ Dia(p[2].ts) = 1
       /\ <<1, dev>> \in DOMAIN masseira_daily
       /\ masseira_daily[<<1, dev>>].energia_kWh = 166667
       /\ masseira_daily[<<1, dev>>].horas_operacao = 83333

\* the energy one rollup run over the window [s, e] credits to a device, all
\* its days together, and the energy calcular_totais_masseiras reports for it
RollupEnergia(dev, s, e) ==
    LET rs == RollupRows(readings, dev, s, e)
    IN SomaFn([n \in 1..Len(rs) |-> rs[n].energia_kWh])
TotaisEnergia(dev, s, e) ==
    LET tot == TotaisMasseiras(readings, s, e)
    IN IF dev \in DOMAIN tot THEN tot[dev].energia_kWh ELSE 0

C7_Instantes == {Epoca0} \cup {Iso(r.ts, 0) : r \in readings}
C7_TodasPositivas(dev) ==
    \A r \in LeiturasDe(dev) : r.power # Null /\ r.power > 0
C7_Janelas ==
    \A dev \in {Masseiras[1], Masseiras[2]} :
        C7_TodasPositivas(dev) =>
            \A s, e1, e2 \in C7_Instantes :
                TsLE(e1, e2) =>
                    /\ 0 <= RollupEnergia(dev, s, e1)
                    /\ RollupEnergia(dev, s, e1) <= RollupEnergia(dev, s, e2)
                    /\ 0 <= TotaisEnergia(dev, s, e1)
                    /\ TotaisEnergia(dev, s, e1) <= TotaisEnergia(dev, s, e2)
C7_NuncaBaixa ==
    \A key \in DOMAIN masseira_daily :
        /\ key \in DOMAIN masseira_daily'
        /\ masseira_daily'[key].energia_kWh >= masseira_daily[key].energia_kWh

\* C7: with all power samples of a device positive, the energy of a window
\* [s, e] is never negative and never falls when e moves forward with s
\* fixed, in the on-demand totals and in one rollup run alike; and a rollup
\* run never lowers the energy a day already holds.
C7_Monotone ==
    /\ [](masseira_daily = EmptyDict => C7_Janelas)
    /\ [][C7_NuncaBaixa]_vars

\* three positive samples: the window ending at the second one holds less
\* energy than the window ending at the third, in both computations
C7_Witness ==
    LET dev == Masseiras[1]
    IN /\ masseira_daily = EmptyDict
       /\ Cardinality(LeiturasDe(dev)) = 3
       /\ C7_TodasPositivas(dev)
       /\ \E e1, e2 \in C7_Instantes :
             /\ 0 < RollupEnergia(dev, Epoca0, e1)
             /\ RollupEnergia(dev, Epoca0, e1) < RollupEnergia(dev, Epoca0, e2)
             /\ 0 < TotaisEnergia(dev, Epoca0, e1)
             /\ TotaisEnergia(dev, Epoca0, e1) < TotaisEnergia(dev, Epoca0, e2)

\* the columns of a DailyRollup row the resumption is about
Campos(row) ==
    [energia_kWh |-> row.energia_kWh, horas_operacao |-> row.horas_operacao,
     corrente_max |-> row.corrente_max, first_ts |-> row.first_ts,
     last_ts |-> row.last_ts, samples |-> row.samples]

\* the table one run over [T0, T2] leaves for the device
UmaRodada(dev, t2) ==
    LET rs == RollupRows(readings, dev, Epoca0, t2)
    IN UpsertRows(EmptyDict, rs, Len(rs), t2)

\* two runs found rows of the device, over [T0, T1] and [T1, T2] with
\* T1 < T2 and T1 the timestamp of a sample
C9_Caso(dev) ==
    /\ TudoVisto(dev)
    /\ energy_log.dev[dev].runs = 2
    /\ energy_log.dev[dev].start_ts # meta[MetaKey(dev)]
    /\ energy_log.dev[dev].start_ts.f = 0
    /\ \E r \in LeiturasDe(dev) : r.ts = energy_log.dev[dev].start_ts.s

\* C9: with T1 on a sample timestamp, the runs over [T0, T1] and [T1, T2]
\* leave DailyRollup rows (energy, hours, peak current, first and last
\* timestamp, sample count) identical to those of one run over [T0, T2].
C9_Resumption ==
    \A dev \in {Masseiras[1], Masseiras[2]} :
        C9_Caso(dev) =>
            LET uma == UmaRodada(dev, meta[MetaKey(dev)])
                keys == {k \in DOMAIN masseira_daily : k[2] = dev}
            IN /\ keys = DOMAIN uma
               /\ \A k \in keys : Campos(masseira_daily[k]) = Campos(uma[k])

\* C10: once the runs have covered every sample of a device, each interval
\* between two consecutive samples at most 5 minutes apart has been summed
\* into the device's energy exactly once.
C10_ExactlyOnce ==
    \A dev \in {Masseiras[1], Masseiras[2]} :
        TudoVisto(dev) =>
            \A p \in Consecutivas(dev) :
                p[2].ts - p[1].ts <= 300 =>
                    Get(integrated, <<dev, p[1].ts, p[2].ts>>, 0) = 1

\* a step of update_masseira_daily: the run's end time is recorded
C16_Rodou == energy_log'.last_end # energy_log.last_end

\* C16: every run of update_masseira_daily that completes without error
\* leaves each device's watermark at the run's end time ("now"), however
\* many day rows the run produced for the device.
C16_WatermarkAdvance ==
    [][C16_Rodou =>
        \A n \in 1..Len(Masseiras) :
            /\ MetaKey(Masseiras[n]) \in DOMAIN meta'
            /\ meta'[MetaKey(Masseiras[n])] = now]_vars

(***************************************************************************)
(* Claims on the jobs that raise (SpecRetry)                               *)
(***************************************************************************)
\* the job a watermark belongs to
C17_Job(key) == IF key = "last_ops_ts" THEN "dosagens" ELSE "masseira"

C17_Keys == {"last_ops_ts"} \cup {MetaKey(Masseiras[n]) : n \in 1..Len(Masseiras)}

\* this step is an attempt of the job of key
C17_Tentou(key) == bg'.ultimo # bg.ultimo /\ bg.pc = C17_Job(key)

C18_Retry(dev) ==
    /\ bg.pc = "masseira" /\ bg'.pc = "dosagens"
    /\ MetaKey(dev) \in DOMAIN bg.falhou
    /\ MetaKey(dev) \notin DOMAIN bg'.falhou
    /\ bg.parcial > 0

\* C18: when update_masseira_daily raised after upserting day rows of a
\* device and before advancing its watermark, the next run leaves the
\* device's day rows equal to those a single run that does not raise would
\* have written from the table as it was before the attempt that raised.
C18_SafeRetry ==
    [][\A n \in 1..Len(Masseiras) :
          C18_Retry(Masseiras[n]) =>
              LinhasDoDev(masseira_daily', Masseiras[n]) =
                  LinhasDoDev(RollupDevice([md |-> bg.md0, meta |-> meta],
                                           readings, Masseiras[n], now).md,
                              Masseiras[n])]_vars

(***************************************************************************)
(* Claims on the shared connection (SpecConn)                              *)
(***************************************************************************)
\* the threads inside a write: between the entry of "with DB_LOCK" and the
\* end of the commit
C19_Escrevendo == {t \in Threads : conn.pc[t] \in {"exec", "commit"}}

\* C19: at most one thread at a time is inside a write on the shared
\* connection, the thread inside a write holds DB_LOCK, and every step
\* that inserts, deletes or commits is taken by the holder of DB_LOCK.
C19_SingleWriter ==
    /\ [](/\ Cardinality(C19_Escrevendo) <= 1
          /\ \A t \in C19_Escrevendo : conn.lock = t)
    /\ [][(conn'.pend # conn.pend \/ conn'.del # conn.del
              \/ conn'.disco # conn.disco) =>
            /\ conn.lock # ""
            /\ conn.pc[conn.lock] \in {"exec", "commit"}
            /\ \A t \in Threads \ {conn.lock} : conn'.pc[t] = conn.pc[t]]_vars

\* a poller is part-way through its executemany while the other poller, the
\* batch task and the cleanup wait at "with DB_LOCK"
C19_Witness ==
    /\ conn.lock = "p1" /\ conn.pc["p1"] = "exec" /\ conn.k = 1
    /\ \A t \in Threads \ {"p1"} : conn.pc[t] = "wait"

\* the committed rows of poll cycle c of poller t
C20_Visiveis(t, c) == {r \in conn.disco : r.t = t /\ r.ciclo = c}

\* C20: of the rows of one poll cycle (one per tag, one timestamp), the
\* other connections see all or none, in every reachable state.
C20_AllOrNothing ==
    \A t \in Pollers : \A c \in 1..MaxCiclos :
        Cardinality(C20_Visiveis(t, c)) \in {0, NTags}

C22_Sequential ==
    /\ [](Cardinality(updater.rodando) <= 1)
    /\ [][("masseira" \in updater'.rodando /\ "masseira" \notin updater.rodando) =>
            /\ "dosagens" \in updater.feitos
            /\ updater.rodando = {}]_vars
    /\ [][updater'.ciclo # updater.ciclo =>
            /\ updater.rodando = {}
            /\ updater.ciclo = 0 \/ updater.feitos = {"dosagens", "masseira"}]_vars

\* the second cycle's rollup is running, after the detection of that cycle
C22_Witness ==
    /\ updater.ciclo = 2
    /\ updater.rodando = {"masseira"}
    /\ "dosagens" \in updater.feitos
    /\ updater.pc = "in_masseira"

\* C23: a poll cycle whose tags all read null appends no row; a cycle with
\* a non-null tag appends exactly one row per tag, the null values as null
\* rows, all rows with one timestamp.
C23_NullShortCircuit ==
    [][(poller.pc = "save" /\ poller'.pc = "sleep" /\ ~poller'.erro) =>
          LET novas == poller'.salvas
          IN /\ poller'.linhas = poller.linhas \cup novas
             /\ IF \A t \in Tags : poller.data[t] = Null
                THEN novas = {}
                ELSE /\ novas \cap poller.linhas = {}
                     /\ Cardinality(novas) = Cardinality(Tags)
                     /\ \A t \in Tags :
                           \E r \in novas : r[2] = t /\ r[3] = poller.data[t]
                     /\ \A r \in novas : r[1] = now.s]_vars

\* the second cycle appended a row per tag, one of them null, after a first
\* cycle that appended none
C23_Witness ==
    /\ poller.pc = "sleep" /\ poller.ciclo = 2 /\ ~poller.erro
    /\ poller.salvas # {}
    /\ poller.linhas = poller.salvas
    /\ \E r \in poller.salvas : r[3] = Null
    /\ \E r \in poller.salvas : r[3] # Null

C25_Numerica(r) == Mal \notin {r.op_and, r.d_sel, r.b_liga, r.v1, r.v2, r.qtd_solic, r.peso}

\* C25: the detector skips each row that carries a non-numeric value and
\* processes all the others: it returns, and what it returns is what it
\* returns for the rows without the malformed ones.
C25_MalformedIsolation ==
    det_pc \in {"done", "raised"} =>
        /\ det_pc = "done"
        /\ LET boas == SelectSeq(rows, C25_Numerica)
           IN resultado = Detecta(boas, boas, tz)

C8_SliceConsistency ==
    (<<"hoje">> \in DOMAIN overview /\ <<"hoje", "7d">> \in DOMAIN overview) =>
        overview[<<"hoje", "7d">>]["hoje"].totais_gerais.total_taxadas =
            overview[<<"hoje">>]["hoje"].totais_gerais.total_taxadas

\* C11: for every list of periods asked for and every period p of the list,
\* the summary calcular_overview_multi returned for p is the summary
\* calcular_overview(p) gives over the same samples at the same reference
\* time, weights of the operations included.
C11_MultiEqualsSingle ==
    \A ps \in DOMAIN overview :
        \A p \in DOMAIN overview[ps] :
            overview[ps][p] = calcular_overview(readings, p, now, tz)

\* the operations of a detector result, each named by its device and its
\* start timestamp
C27_Operacoes(ops_dict) ==
    LET lista == ListaOps(ops_dict, 1)
    IN {<<lista[n].dev, lista[n].op.horario>> : n \in 1..Len(lista)}

\* the base rows calcular_overview_multi fetches for the periods ps
C27_BaseRows(ps, tipo) ==
    LET S == {ps[n] : n \in 1..Len(ps)}
    IN FetchOpsRows(readings,
                    MinIso({_periodo_para_datas(p, now)[1] : p \in S}),
                    MaxIso({_periodo_para_datas(p, now)[2] : p \in S}), tipo)

\* C27: for every period asked for, the operations attributed to the period
\* are exactly the operations detected over the union window whose start
\* timestamp lies inside the period's window.
C27_SliceByStart ==
    \A ps \in DOMAIN overview :
        \A p \in DOMAIN overview[ps] :
            \A tipo \in {"Resina", "Agua"} :
                LET base == C27_BaseRows(ps, tipo)
                    b == _periodo_para_datas(p, now)
                    uniao == C27_Operacoes(Detecta(base, base, tz))
                IN C27_Operacoes(ops_for_period(base, _periodo_para_epochs(p, now, tz), tz)) =
                       {o \in uniao : TsLE(b[1], Iso(o[2], 0)) /\ TsLE(Iso(o[2], 0), b[2])}

\* C28: in every period summary, total_taxadas is the sum of num_taxadas
\* over the devices listed under masseiras, and the total energy and hours
\* are the sums of the energy and the hours of those devices.
C28_CrossDeviceTotals ==
    \A ps \in DOMAIN overview :
        \A p \in DOMAIN overview[ps] :
            LET o == overview[ps][p]
                m == o.masseiras
            IN /\ o.totais_gerais.total_taxadas = SomaFn([d \in DOMAIN m |-> m[d].num_taxadas])
               /\ o.totais_gerais.energia_kWh = SomaFn([d \in DOMAIN m |-> m[d].energia_kWh])
               /\ o.totais_gerais.horas_operacao = SomaFn([d \in DOMAIN m |-> m[d].horas_operacao])

\* the pairs of consecutive samples of a mixer within the window of period p
C33_Pares(dev, p) ==
    LET b == _periodo_para_datas(p, now)
        S == {r \in readings : r.dev = dev /\ NaJanela(r.ts, b[1], b[2])}
    IN {q \in S \X S :
          q[1].ts < q[2].ts /\ ~\E r \in S : q[1].ts < r.ts /\ r.ts < q[2].ts}

\* C33: in every period summary, of calcular_overview_multi and of
\* calcular_totais_masseiras alike, a mixer whose consecutive samples in the
\* period are all more than 5 minutes apart has zero energy and zero
\* operating hours.
C33_GapRuleOverview ==
    \A ps \in DOMAIN overview :
        \A p \in DOMAIN overview[ps] :
            LET single == calcular_totais_masseiras(readings, p, now)
                multi == overview[ps][p].masseiras
            IN \A dev \in (DOMAIN single) \cup (DOMAIN multi) :
                  (\A q \in C33_Pares(dev, p) : q[2].ts - q[1].ts > LimiteSeg) =>
                      /\ dev \in DOMAIN single =>
                            single[dev].energia_kWh = 0 /\ single[dev].horas_operacao = 0
                      /\ dev \in DOMAIN multi =>
                            multi[dev].energia_kWh = 0 /\ multi[dev].horas_operacao = 0

\* the stored rows inside the union window of the periods ps, which are the
\* rows calcular_overview_multi fetches
C37_Fetched(ps) ==
    LET S == {ps[n] : n \in 1..Len(ps)}
    IN {r \in readings :
          NaJanela(r.ts, MinIso({_periodo_para_datas(p, now)[1] : p \in S}),
                         MaxIso({_periodo_para_datas(p, now)[2] : p \in S}))}

\* C37: in calcular_overview_multi a fetched row is kept for period p by the
\* epoch filter exactly when its stored timestamp lies within the window
\* that _periodo_para_datas gives for p, whatever the host's time zone.
C37_OneTimeScale ==
    \A ps \in DOMAIN overview :
        \A p \in DOMAIN overview[ps] :
            LET b == _periodo_para_datas(p, now)
                ep == _periodo_para_epochs(p, now, tz)
            IN \A r \in C37_Fetched(ps) :
                  (~(strftime_s(r.ts) < ep[1] \/ strftime_s(r.ts) > ep[2]))
                      <=> NaJanela(r.ts, b[1], b[2])

\* |x|
C34_Abs(x) == IF x < 0 THEN 0 - x ELSE x

\* the number of operations of a detector result that went to a mixer
C34_Conta(ops_dict, dev) ==
    LET lista == ListaOps(ops_dict, 1)
    IN Cardinality({n \in 1..Len(lista) : lista[n].destino = dev})

\* the two per-operation figures of a mixer's entry m against a count n:
\* zero for no operation, else the quotient to the nearest hundredth
C34_Derivados(m, n) ==
    IF n = 0
    THEN m.tempo_medio_taxada_min = 0 /\ m.energia_por_taxada_kWh = 0
    ELSE /\ 2 * C34_Abs(m.tempo_medio_taxada_min * n - m.horas_operacao * 60) <= n
         /\ 2 * C34_Abs(m.energia_por_taxada_kWh * n - m.energia_kWh) <= n

\* C34: for every device of every period summary, of calcular_overview_multi
\* and of calcular_overview alike, the average time and the energy per
\* operation are 0 when no resin operation of the summary went to the
\* device, and otherwise hours*60/count and energy/count, count being the
\* number of resin operations of the summary whose destination is the device.
C34_DerivedKpis ==
    \A ps \in DOMAIN overview :
        \A p \in DOMAIN overview[ps] :
            LET multi == overview[ps][p].masseiras
                single == calcular_overview(readings, p, now, tz).masseiras
                ops_multi == ops_for_period(C27_BaseRows(ps, "Resina"),
                                            _periodo_para_epochs(p, now, tz), tz)
                ops_single == calcula_operacoes_descarga_tanques(readings, p, "Resina", now, tz)
            IN /\ \A dev \in DOMAIN multi :
                     C34_Derivados(multi[dev], C34_Conta(ops_multi, dev))
               /\ \A dev \in DOMAIN single :
                     C34_Derivados(single[dev], C34_Conta(ops_single, dev))

\* a request answered one period with a mixer that ran and received no resin
\* operation, and another with a mixer whose energy was divided over two
\* operations or more
C34_Witness ==
    \E ps \in DOMAIN overview :
        /\ \E p \in DOMAIN overview[ps] :
              \E dev \in DOMAIN overview[ps][p].masseiras :
                  LET m == overview[ps][p].masseiras[dev]
                  IN m.num_taxadas = 0 /\ m.horas_operacao > 0 /\ m.energia_kWh > 0
        /\ \E p \in DOMAIN overview[ps] :
              \E dev \in DOMAIN overview[ps][p].masseiras :
                  LET m == overview[ps][p].masseiras[dev]
                  IN /\ m.num_taxadas >= 2
                     /\ m.energia_por_taxada_kWh > 0
                     /\ m.energia_por_taxada_kWh < m.energia_kWh
                     /\ m.tempo_medio_taxada_min > 0

(***************************************************************************)
(* Claims on the shared connection (SpecGlobal)                            *)
(***************************************************************************)
\* C38: get_global_conn creates the connection at most once, also when the
\* first calls come from several threads at the same time, and every call
\* returns the same connection.
C38_SingleConnection ==
    /\ conn.criadas <= 1
    /\ Cardinality(conn.recebidas) <= 1

(***************************************************************************)
(* Claims on the upsert (SpecUpsert)                                       *)
(***************************************************************************)
\* the rows handed in so far for a key, and the values they carry in a column
Recebidas(key) ==
    {n \in 1..Len(upserts) : <<upserts[n].day, upserts[n].device>> = key}
C13_Correntes(key) == {upserts[n].corrente_max : n \in Recebidas(key)}
C13_Ultimos(key) == {upserts[n].last_ts : n \in Recebidas(key)}
C14_Primeiros(key) == {upserts[n].first_ts : n \in Recebidas(key)}

\* null counted as 0
C12_Zero(x) == IF x = Null THEN 0 ELSE x

\* the step upserts the row upserts'[Len(upserts')]
C12_Passo ==
    LET row == upserts'[Len(upserts')]
        key == <<row.day, row.device>>
    IN upserts' # upserts =>
        IF key \in DOMAIN masseira_daily
        THEN /\ masseira_daily'[key].energia_kWh =
                  C12_Zero(masseira_daily[key].energia_kWh) + C12_Zero(row.energia_kWh)
             /\ masseira_daily'[key].horas_operacao =
                  C12_Zero(masseira_daily[key].horas_operacao) + C12_Zero(row.horas_operacao)
             /\ masseira_daily'[key].samples =
                  C12_Zero(masseira_daily[key].samples) + C12_Zero(row.samples)
        ELSE /\ masseira_daily'[key].energia_kWh = row.energia_kWh
             /\ masseira_daily'[key].horas_operacao = row.horas_operacao
             /\ masseira_daily'[key].samples = row.samples

\* C12: an upsert on a (date, device) that has a row leaves energy, hours
\* and sample count at the stored value plus the incoming one, a null on
\* either side counted as 0; on a (date, device) without a row it stores
\* the incoming values as given.
C12_AdditiveMerge == [][C12_Passo]_vars

\* a row stored with nulls, then one with values, then one with nulls: the
\* sums are those of the one row with values
C12_Witness ==
    LET key == <<0, Masseiras[1]>>
    IN /\ Len(upserts) = 3
       /\ \A n \in 1..3 : upserts[n].day = 0
       /\ upserts[1].energia_kWh = Null /\ upserts[2].energia_kWh = 2
       /\ upserts[3].energia_kWh = Null
       /\ masseira_daily[key].energia_kWh = 2
       /\ masseira_daily[key].horas_operacao = 3
       /\ masseira_daily[key].samples = 4

C13_Estado ==
    \A key \in DOMAIN masseira_daily :
        /\ masseira_daily[key].corrente_max = MaxOrNull(C13_Correntes(key))
        /\ masseira_daily[key].last_ts = MaxOrNull(C13_Ultimos(key))
C13_Passo ==
    \A key \in DOMAIN masseira_daily :
        /\ masseira_daily[key].corrente_max # Null =>
              masseira_daily'[key].corrente_max >= masseira_daily[key].corrente_max
        /\ masseira_daily[key].last_ts # Null =>
              masseira_daily'[key].last_ts >= masseira_daily[key].last_ts

\* C13: after any sequence of upserts on a (date, device) the stored peak
\* current is the maximum of the non-null incoming peak currents and the
\* stored last timestamp the maximum of the non-null incoming last
\* timestamps; no upsert replaces either by a smaller value or by null.
C13_MaxMerge == []C13_Estado /\ [][C13_Passo]_vars

\* the larger values came first, then smaller ones, then nulls
C13_Witness ==
    LET key == <<0, Masseiras[1]>>
    IN /\ Len(upserts) = 3
       /\ upserts[1].day = 0 /\ upserts[1].corrente_max = 7 /\ upserts[1].last_ts = 20
       /\ upserts[2].day = 0 /\ upserts[2].corrente_max = 3 /\ upserts[2].last_ts = 10
       /\ upserts[3].day = 0 /\ upserts[3].corrente_max = Null /\ upserts[3].last_ts = Null
       /\ masseira_daily[key].corrente_max = 7
       /\ masseira_daily[key].last_ts = 20

\* C14: after any sequence of upserts on a (date, device), in any order, the
\* stored first timestamp is the minimum of the non-null incoming first
\* timestamps.
C14_MinMerge ==
    \A key \in DOMAIN masseira_daily :
        masseira_daily[key].first_ts =
            (IF C14_Primeiros(key) \ {Null} = {} THEN Null
             ELSE Min(C14_Primeiros(key) \ {Null}))

====
